---- MODULE Spec2Model ----
(***************************************************************************)
(* Lot allocation engine of the sales-order application:                   *)
(*   backend/src/utils/business_central_auth.py                            *)
(*     group_lot_records          (the Lot Aggregator)                     *)
(*     allocate_item_lots_fifo    (the PO-grouped FIFO Allocator)          *)
(*     get_sales_order_lot_details, allocate_sales_order_lots              *)
(*                                (the Orchestrator)                       *)
(*     insert_lot_into_sales_order (the reservation writer)                *)
(*   backend/src/utils/lot_selector.py                                     *)
(*     LotSelector                (the plain FIFO selector)                *)
(* and what the engine is served through:                                  *)
(*   backend/src/utils/bc_env.py, backend/web/app.py,                      *)
(*   backend/src/agents/tools.py  (the environment selector)               *)
(*   BusinessCentralAuth.get_access_token (the token cache)                *)
(*                                                                         *)
(* Quantities are Python floats in the source.  They are modelled as       *)
(* fixed-point integers counting units of 0.00001 (five decimal places,    *)
(* the precision of a Business Central quantity), so that round(x, 4) and  *)
(* round(2) are real roundings and not the identity.                       *)
(*                                                                         *)
(* Strings that the code inspects character by character (Lot_No) are      *)
(* sequences of one-character strings.  A "YYYY-MM-DD" text and a          *)
(* datetime.date are both carried as <<year, month, day>>, tagged with the *)
(* Python type that holds them.                                            *)
(***************************************************************************)
EXTENDS Integers, Sequences, FiniteSets, TLC

VARIABLES
    lot_data,        \* the request dict handed to allocate_item_lots_fifo
    pc,              \* position of the current allocate_item_lots_fifo call
    ordered_lots,    \* local: the flattened FIFO sequence
    idx,             \* local: position of the for-loop over ordered_lots
    selected_lots,   \* local: selections recorded so far
    remaining_need,  \* local: quantity still to be covered
    outcomes,        \* what each finished call returned or raised, in call order
    ledger,          \* raw ItemLedgerEntries response handed to group_lot_records
    requested_qty_map, \* lotNo -> requested quantity (reservation entries)
    lot_list,        \* what group_lot_records returned; the orchestrator's lot_list
    agg_pc,          \* position of the group_lot_records call
    reservations,    \* Business Central: the ReservationEntries table
    bc_requests,     \* the HTTP requests sent to Business Central, in order
    sales_order_lines, \* Business Central: the salesOrderLines of the order
    item_ledger,     \* Business Central: ItemLedgerEntries answer per item number
    sales_order_lines_data, \* local: the lines get_sales_order_lines returned
    so_pc,           \* position of the allocate_sales_order_lots call
    so_line,         \* position of its current for-loop
    so_selected,     \* its local selected_lots: one allocation result per line
    so_outcome,      \* what allocate_sales_order_lots returned
    insert_args,     \* arguments of insert_lot_into_sales_order
    insert_pc,       \* position of the insert_lot_into_sales_order call
    insert_pos,      \* <<item index, lot index>> of its nested for-loops
    insert_outcomes, \* what each finished insert_lot_into_sales_order returned
    available_lots,  \* LotSelector.available_lots
    selector_selected, \* LotSelector.selected_lots
    selector_calls,  \* the LotSelector.allocate calls made and how each ended
    po_lot_no,       \* the argument of get_PO
    po_returned,     \* what the get_PO calls on it returned, in call order
    CURRENT_BC_ENV,  \* utils/bc_env.py: the module global
    app_CURRENT_BC_ENV, \* web/app.py: the name CURRENT_BC_ENV imported at line 13
    bc_auth,         \* agents/tools.py: the module-level client of the search tools
    env_served,      \* the requests served so far: what was asked, what was used
    access_token,    \* BusinessCentralAuth._access_token
    expires_at,      \* BusinessCentralAuth._expires_at
    now,             \* time.time(), in seconds
    token_calls      \* the get_access_token calls made and how each went

allocVars == <<lot_data, pc, ordered_lots, idx, selected_lots, remaining_need, outcomes>>
aggVars == <<ledger, requested_qty_map, lot_list, agg_pc>>
bcVars == <<reservations, bc_requests>>
orchVars == <<sales_order_lines, item_ledger, sales_order_lines_data, so_pc, so_line, so_selected, so_outcome>>
insertVars == <<insert_args, insert_pc, insert_pos, insert_outcomes>>
selectorVars == <<available_lots, selector_selected, selector_calls>>
poVars == <<po_lot_no, po_returned>>
envVars == <<CURRENT_BC_ENV, app_CURRENT_BC_ENV, bc_auth, env_served>>
tokenVars == <<access_token, expires_at, now, token_calls>>

\* the environment selector and the token cache
serviceVars == <<envVars, tokenVars>>

\* everything outside the Allocator and the Aggregator
outerVars == <<bcVars, orchVars, insertVars, selectorVars, poVars, serviceVars>>

vars == <<allocVars, aggVars, outerVars>>

-----------------------------------------------------------------------------
(* Bounds of the model *)

\* most lot records in one request
MaxLots == 3
\* most calls of allocate_item_lots_fifo on one request object
MaxCalls == 2
\* most raw ledger rows in one ItemLedgerEntries response
MaxRows == 3
\* most lines of one sales order
MaxLines == 2
\* most allocation results in one insert_lot_into_sales_order call
MaxItems == 2
\* most characters of a lot number handed to get_PO on its own
MaxLen == 5
\* most calls of allocate on one LotSelector
MaxSelectorCalls == 2
\* most requests served while the environment is switched
MaxServed == 4
\* most calls of get_access_token on one client
MaxTokenCalls == 3
\* the clock is advanced up to this many seconds
MaxTime == 90

-----------------------------------------------------------------------------
(* Numbers *)

\* units in 0.0001: the grain of round(x, 4)
Grain4 == 10
\* units in 0.01: the grain of round(2)
Grain2 == 1000

Min(a, b) == IF a <= b THEN a ELSE b
Abs(a) == IF a < 0 THEN -a ELSE a

\* round half to even to a multiple of grain (Python round(), numpy round)
RoundTo(n, grain) ==
    LET q == n \div grain
        r == n % grain
    IN  IF 2 * r < grain THEN q * grain
        ELSE IF 2 * r > grain THEN (q + 1) * grain
        ELSE IF q % 2 = 0 THEN q * grain ELSE (q + 1) * grain

Round4(n) == RoundTo(n, Grain4)
Round2(n) == RoundTo(n, Grain2)

RECURSIVE SumSeq(_)
SumSeq(s) == IF s = <<>> THEN 0 ELSE s[Len(s)] + SumSeq(SubSeq(s, 1, Len(s) - 1))

-----------------------------------------------------------------------------
(* Text *)

\* code point of a character; Python compares str by code point
CharCode(c) ==
    CASE c = " " -> 32 [] c = "#" -> 35 [] c = "-" -> 45 [] c = "/" -> 47
      [] c = "1" -> 49 [] c = "2" -> 50 [] c = "3" -> 51 [] c = "9" -> 57
      [] c = "A" -> 65 [] c = "B" -> 66 [] c = "C" -> 67 [] c = "D" -> 68
      [] c = "P" -> 80 [] c = "X" -> 88

RECURSIVE StrLess(_, _)
StrLess(a, b) ==
    IF b = <<>> THEN FALSE
    ELSE IF a = <<>> THEN TRUE
    ELSE IF CharCode(a[1]) # CharCode(b[1]) THEN CharCode(a[1]) < CharCode(b[1])
    ELSE StrLess(Tail(a), Tail(b))

\* lexicographic order of <<year, month, day>>: the order of datetime.date, and
\* of zero-padded "YYYY-MM-DD" texts
DateLess(a, b) ==
    \/ a[1] < b[1]
    \/ a[1] = b[1] /\ a[2] < b[2]
    \/ a[1] = b[1] /\ a[2] = b[2] /\ a[3] < b[3]

\* Python None (a PO token is never empty, so <<>> is free to stand for it)
None == <<>>

-----------------------------------------------------------------------------
(* allocate_item_lots_fifo: nested helpers *)

DaysInMonth(y, m) ==
    IF m \in {4, 6, 9, 11} THEN 30
    ELSE IF m = 2 THEN (IF y % 4 = 0 /\ (y % 100 # 0 \/ y % 400 = 0) THEN 29 ELSE 28)
    ELSE 31

\* datetime.strptime(v, "%Y-%m-%d") accepts the text
ValidYMD(t) ==
    /\ t[1] \in 1..9999
    /\ t[2] \in 1..12
    /\ t[3] \in 1..DaysInMonth(t[1], t[2])

Raised == [type |-> "raise"]

\* to_date: a date is returned as it is, a str is parsed, anything else raises
to_date(v) ==
    IF v.type = "date" THEN v
    ELSE IF v.type = "str"
         THEN (IF ValidYMD(v.ymd) THEN [type |-> "date", ymd |-> v.ymd] ELSE Raised)
         ELSE Raised

\* date.isoformat()
isoformat(d) == [type |-> "str", ymd |-> d.ymd]

\* variant: '/' is not excluded from the token
InTokenClassWithSlash(c) == c \notin {"-", " ", "#"}

\* [^-\s#/]
InTokenClass(c) == c \notin {"-", " ", "#", "/"}

\* end of the regex match that starts at the '#' at position i:
\* the index of the '-' closing a non-empty run of token characters, or 0
MatchEnd(s, i) ==
    LET stops == {j \in (i + 1)..Len(s) : ~InTokenClass(s[j])}
    IN  IF stops = {} THEN 0
        ELSE LET j == CHOOSE k \in stops : \A o \in stops : k <= o
             IN  IF j > i + 1 /\ s[j] = "-" THEN j ELSE 0

\* variant: a lot number without a token is its own key
get_POKeyedByLot(lot_no) ==
    LET starts == {i \in 1..Len(lot_no) : lot_no[i] = "#" /\ MatchEnd(lot_no, i) # 0}
    IN  IF starts = {} THEN lot_no
        ELSE LET i == CHOOSE k \in starts : \A o \in starts : k <= o
             IN  SubSeq(lot_no, i + 1, MatchEnd(lot_no, i) - 1)

\* get_PO: re.compile(r"#([^-\s#/]+)-").search(lot_no), group 1 of the leftmost match
get_PO(lot_no) ==
    LET starts == {i \in 1..Len(lot_no) : lot_no[i] = "#" /\ MatchEnd(lot_no, i) # 0}
    IN  IF starts = {} THEN None
        ELSE LET i == CHOOSE k \in starts : \A o \in starts : k <= o
             IN  SubSeq(lot_no, i + 1, MatchEnd(lot_no, i) - 1)

-----------------------------------------------------------------------------
(* allocate_item_lots_fifo: steps 1 to 6 *)

HasPO(lot) == "PO" \in DOMAIN lot

\* variant: a lot whose date does not parse is given date.min and goes on
ParseLotDefaultingDate(lot) ==
    LET d == to_date(lot.Posting_Date)
    IN  [k \in DOMAIN lot \cup {"PO"} |->
            IF k = "PO" THEN get_PO(lot.Lot_No)
            ELSE IF k = "Posting_Date"
                 THEN (IF d = Raised THEN [type |-> "date", ymd |-> <<1, 1, 1>>] ELSE d)
            ELSE lot[k]]

\* Steps 1-2 for one lot: Posting_Date is overwritten first, then PO is set;
\* an exception leaves the lot as it was at that point and the loop goes on
ParseLot(lot) ==
    LET d == to_date(lot.Posting_Date)
    IN  IF d = Raised THEN lot
        ELSE [k \in DOMAIN lot \cup {"PO"} |->
                 IF k = "PO" THEN get_PO(lot.Lot_No)
                 ELSE IF k = "Posting_Date" THEN d
                 ELSE lot[k]]

ParseLots(lot_records) == [i \in 1..Len(lot_records) |-> ParseLot(lot_records[i])]

Front(s) == SubSeq(s, 1, Len(s) - 1)
Last(s) == s[Len(s)]

\* keys of the defaultdict, in insertion order (first occurrence of each PO)
RECURSIVE GroupKeys(_)
GroupKeys(lots) ==
    IF lots = <<>> THEN <<>>
    ELSE LET rest == GroupKeys(Front(lots))
             po == Last(lots).PO
         IN  IF \E i \in 1..Len(rest) : rest[i] = po THEN rest ELSE Append(rest, po)

\* list.sort(key=Posting_Date) is stable: x, which came later, goes behind every
\* element whose key is not greater
InsertByDate(sorted, x) ==
    LET k == Cardinality({i \in 1..Len(sorted) :
                 ~DateLess(x.Posting_Date.ymd, sorted[i].Posting_Date.ymd)})
    IN  SubSeq(sorted, 1, k) \o <<x>> \o SubSeq(sorted, k + 1, Len(sorted))

RECURSIVE SortByPostingDate(_)
SortByPostingDate(items) ==
    IF items = <<>> THEN <<>>
    ELSE InsertByDate(SortByPostingDate(Front(items)), Last(items))

\* groups[po] after step 4
Group(lots, po) == SortByPostingDate(SelectSeq(lots, LAMBDA l : l.PO = po))

\* variant: the group is keyed by its latest lot, items[-1]
GroupHeadLatest(lots, po) == [po |-> po, first |-> Last(Group(lots, po)).Posting_Date]

\* (po, items[0]["Posting_Date"])
GroupHead(lots, po) == [po |-> po, first |-> Group(lots, po)[1].Posting_Date]

InsertByFirst(sorted, x) ==
    LET k == Cardinality({i \in 1..Len(sorted) :
                 ~DateLess(x.first.ymd, sorted[i].first.ymd)})
    IN  SubSeq(sorted, 1, k) \o <<x>> \o SubSeq(sorted, k + 1, Len(sorted))

RECURSIVE SortByFirst(_)
SortByFirst(pairs) ==
    IF pairs = <<>> THEN <<>>
    ELSE InsertByFirst(SortByFirst(Front(pairs)), Last(pairs))

\* step 5: sorted(((po, earliest date) ...), key=date), stable over insertion order
GroupOrder(lots) ==
    LET keys == GroupKeys(lots)
    IN  SortByFirst([i \in 1..Len(keys) |-> GroupHead(lots, keys[i])])

RECURSIVE Flatten(_, _)
Flatten(lots, order) ==
    IF order = <<>> THEN <<>>
    ELSE Flatten(lots, Front(order)) \o Group(lots, Last(order).po)

\* step 6: the FIFO sequence
FifoSequence(lots) == Flatten(lots, GroupOrder(lots))

-----------------------------------------------------------------------------
(* allocate_item_lots_fifo: step 7 and the result *)

\* variant: the loop breaks only once more than the need has been taken
BreakLate(need) == need < 0

\* if remaining_need <= 0: break
BreakNow(need) == need <= 0

\* variant: the whole lot is taken, whatever is still needed
TakeAll(available, need) == available

\* variant: max for min
TakeMax(available, need) == IF available >= need THEN available ELSE need

\* take = min(available, remaining_need)
Take(available, need) == Min(available, need)

\* variant: only a zero take is skipped
TakeNonZero(take) == take # 0

\* if take > 0:
TakePositive(take) == take > 0

\* variant: the selection records the whole lot, whatever was taken from it
SelectionOfWholeLot(lot, take) ==
    [Lot_No |-> lot.Lot_No,
     PO |-> lot.PO,
     Posting_Date |-> isoformat(lot.Posting_Date),
     Selected_Qty |-> Round4(lot.Available_Quantity)]

\* the dict appended to selected_lots
Selection(lot, take) ==
    [Lot_No |-> lot.Lot_No,
     PO |-> lot.PO,
     Posting_Date |-> isoformat(lot.Posting_Date),
     Selected_Qty |-> Round4(take)]

\* variant: Unfulfilled_Qty is not rounded
AllocationResultUnrounded(req, selected, need) ==
    [Item_No |-> req.Item_No,
     Line_No |-> req.Line_No,
     Location_Code |-> req.Location_Code,
     Requested_Qty |-> req.Quantity,
     Selected_Lots |-> selected,
     Unfulfilled_Qty |-> need]

\* the dict returned
AllocationResult(req, selected, need) ==
    [Item_No |-> req.Item_No,
     Line_No |-> req.Line_No,
     Location_Code |-> req.Location_Code,
     Requested_Qty |-> req.Quantity,
     Selected_Lots |-> selected,
     Unfulfilled_Qty |-> Round4(need)]

Returned(value) == [kind |-> "return", value |-> value]
Raise(exc) == [kind |-> "raise", exc |-> exc]

\* Steps 1-6.  The lot records are rewritten in place.  A lot whose date did not
\* parse has no "PO" key, and groups[lot["PO"]] raises KeyError.
Prepare ==
    /\ pc = "call"
    /\ LET parsed == ParseLots(lot_data.Lot_Records)
       IN  /\ lot_data' = [lot_data EXCEPT !.Lot_Records = parsed]
           /\ IF \E i \in 1..Len(parsed) : ~HasPO(parsed[i])
              THEN /\ outcomes' = Append(outcomes, Raise("KeyError"))
                   /\ pc' = "done"
                   /\ UNCHANGED <<ordered_lots, idx, selected_lots, remaining_need>>
              ELSE /\ ordered_lots' = FifoSequence(parsed)
                   /\ idx' = 1
                   /\ selected_lots' = <<>>
                   /\ remaining_need' = lot_data.Quantity
                   /\ pc' = "walk"
                   /\ UNCHANGED outcomes
    /\ UNCHANGED <<aggVars, outerVars>>

\* variant: what is taken is also deducted from the lot record of the request
WalkConsuming ==
    /\ pc = "walk"
    /\ idx <= Len(ordered_lots)
    /\ ~BreakNow(remaining_need)
    /\ LET lot == ordered_lots[idx]
           take == Take(lot.Available_Quantity, remaining_need)
       IN  IF TakePositive(take)
           THEN /\ selected_lots' = Append(selected_lots, Selection(lot, take))
                /\ remaining_need' = remaining_need - take
                /\ lot_data' = [lot_data EXCEPT !.Lot_Records =
                       [i \in 1..Len(lot_data.Lot_Records) |->
                           IF lot_data.Lot_Records[i].Lot_No = lot.Lot_No
                           THEN [lot_data.Lot_Records[i] EXCEPT
                                    !.Available_Quantity = @ - take]
                           ELSE lot_data.Lot_Records[i]]]
           ELSE UNCHANGED <<selected_lots, remaining_need, lot_data>>
    /\ idx' = idx + 1
    /\ UNCHANGED <<pc, ordered_lots, outcomes>>
    /\ UNCHANGED <<aggVars, outerVars>>

\* one iteration of "for lot in ordered_lots" that does not break
Walk ==
    /\ pc = "walk"
    /\ idx <= Len(ordered_lots)
    /\ ~BreakNow(remaining_need)
    /\ LET lot == ordered_lots[idx]
           take == Take(lot.Available_Quantity, remaining_need)
       IN  IF TakePositive(take)
           THEN /\ selected_lots' = Append(selected_lots, Selection(lot, take))
                /\ remaining_need' = remaining_need - take
           ELSE UNCHANGED <<selected_lots, remaining_need>>
    /\ idx' = idx + 1
    /\ UNCHANGED <<lot_data, pc, ordered_lots, outcomes>>
    /\ UNCHANGED <<aggVars, outerVars>>

\* the loop ends (exhausted, or break) and the result is returned
Return ==
    /\ pc = "walk"
    /\ idx > Len(ordered_lots) \/ BreakNow(remaining_need)
    /\ outcomes' = Append(outcomes,
                      Returned(AllocationResult(lot_data, selected_lots, remaining_need)))
    /\ pc' = "done"
    /\ UNCHANGED <<lot_data, ordered_lots, idx, selected_lots, remaining_need>>
    /\ UNCHANGED <<aggVars, outerVars>>

\* the caller passes the same request object to allocate_item_lots_fifo again
CallAgain ==
    /\ pc = "done"
    /\ Len(outcomes) < MaxCalls
    /\ pc' = "call"
    /\ ordered_lots' = <<>>
    /\ idx' = 0
    /\ selected_lots' = <<>>
    /\ remaining_need' = 0
    /\ UNCHANGED <<lot_data, outcomes>>
    /\ UNCHANGED <<aggVars, outerVars>>

-----------------------------------------------------------------------------
(* Requests handed to the Allocator *)

\* lot numbers a request draws from
LotPool ==
    { <<"A", "#", "P", "1", "-", "1">>,
      <<"B", "#", "P", "2", "-", "1">>,
      <<"C", "#", "P", "1", "-", "2">>,
      <<"X", "9">> }

DateValues == { <<2024, 1, 1>>, <<2024, 2, 1>>, <<2024, 3, 1>> }

\* Available_Quantity is rounded to 2 decimals by the Aggregator
AvailValues == { -Grain2, 0, Grain2, 2 * Grain2 }

\* Quantity of a sales line: any decimal, zero and negative included
QuantityValues ==
    { -Grain2, 0, 4, Grain2, Grain2 + 6, 3 * Grain2, 5 * Grain2, 5 * Grain2 + 4,
      7 * Grain2 + 6 }

\* quantities of the requests that are allocated more than once
RecallQuantityValues == { Grain2 + 6, 5 * Grain2 }

\* ascending by Lot_No: the order DataFrame.groupby("Lot_No") leaves the records in
RECURSIVE SortByLotNo(_)
SortByLotNo(S) ==
    IF S = {} THEN <<>>
    ELSE LET m == CHOOSE x \in S : \A y \in S \ {x} : StrLess(x, y)
         IN  <<m>> \o SortByLotNo(S \ {m})

\* a record of Lot_Records as the Aggregator produces it: a positive remaining
\* quantity, and a requested quantity that explains the available quantity
LotRecord(lot_no, ymd, avail) ==
    [Lot_No |-> lot_no,
     Remaining_Quantity |-> 2 * Grain2,
     Posting_Date |-> [type |-> "str", ymd |-> ymd],
     Requested_Quantity |-> avail - 2 * Grain2,
     Available_Quantity |-> avail]

Request(S, d, a, q) ==
    LET names == SortByLotNo(S)
    IN  [Item_No |-> "ITEM1",
         Line_No |-> 10000,
         Location_Code |-> "MAIN",
         Quantity |-> q,
         Lot_Records |-> [i \in 1..Len(names) |-> LotRecord(names[i], d[names[i]], a[names[i]])]]

\* nothing but the Allocator or the Aggregator is running
BcIdle ==
    /\ reservations = <<>>
    /\ bc_requests = <<>>

OrchIdle ==
    /\ sales_order_lines = <<>>
    /\ item_ledger = <<>>
    /\ sales_order_lines_data = <<>>
    /\ so_pc = "idle"
    /\ so_line = 0
    /\ so_selected = <<>>
    /\ so_outcome = <<>>

InsertIdle ==
    /\ insert_args = <<>>
    /\ insert_pc = "idle"
    /\ insert_pos = <<0, 0>>
    /\ insert_outcomes = <<>>

SelectorIdle ==
    /\ available_lots = <<>>
    /\ selector_selected = <<>>
    /\ selector_calls = <<>>

PoIdle ==
    /\ po_lot_no = <<>>
    /\ po_returned = <<>>

EnvIdle ==
    /\ CURRENT_BC_ENV = <<>>
    /\ app_CURRENT_BC_ENV = <<>>
    /\ bc_auth = <<>>
    /\ env_served = <<>>

TokenIdle ==
    /\ access_token = <<>>
    /\ expires_at = 0
    /\ now = 0
    /\ token_calls = <<>>

ServiceIdle == EnvIdle /\ TokenIdle

OuterIdle == BcIdle /\ OrchIdle /\ InsertIdle /\ SelectorIdle /\ PoIdle /\ ServiceIdle

AggIdle ==
    /\ ledger = <<>>
    /\ requested_qty_map = <<>>
    /\ lot_list = <<>>
    /\ agg_pc = "idle"

AllocStart ==
    /\ pc = "call"
    /\ ordered_lots = <<>>
    /\ idx = 0
    /\ selected_lots = <<>>
    /\ remaining_need = 0
    /\ outcomes = <<>>

InitAlloc ==
    /\ \E S \in SUBSET LotPool :
         /\ Cardinality(S) <= MaxLots
         /\ \E d \in [S -> DateValues], a \in [S -> AvailValues], q \in QuantityValues :
                lot_data = Request(S, d, a, q)
    /\ AllocStart
    /\ AggIdle
    /\ OuterIdle

NextAlloc == Prepare \/ Walk \/ Return

\* one call of allocate_item_lots_fifo on each request
SpecAlloc == InitAlloc /\ [][NextAlloc]_vars

InitRecall ==
    /\ \E S \in SUBSET LotPool :
         /\ Cardinality(S) <= MaxLots
         /\ \E d \in [S -> DateValues], a \in [S -> AvailValues], q \in RecallQuantityValues :
                lot_data = Request(S, d, a, q)
    /\ AllocStart
    /\ AggIdle
    /\ OuterIdle

NextRecall == Prepare \/ Walk \/ Return \/ CallAgain

\* up to MaxCalls calls of allocate_item_lots_fifo on the same request object
SpecRecall == InitRecall /\ [][NextRecall]_vars

-----------------------------------------------------------------------------
(* group_lot_records *)

\* {}: what get_item_lot_ledger_entries returns when the query fails
EmptyDict == <<>>

LotNosOf(rows) == {rows[i].Lot_No : i \in 1..Len(rows)}

RowsOfLot(rows, lot_no) == SelectSeq(rows, LAMBDA r : r.Lot_No = lot_no)

\* agg "Remaining_Quantity": "sum"
RemainingSum(rows) == SumSeq([i \in 1..Len(rows) |-> rows[i].Remaining_Quantity])

\* variant: the earliest posting date
RECURSIVE PostingMin(_)
PostingMin(rows) ==
    IF Len(rows) = 1 THEN rows[1].Posting_Date
    ELSE LET m == PostingMin(Front(rows))
             x == Last(rows).Posting_Date
         IN  IF DateLess(x.ymd, m.ymd) THEN x ELSE m

\* agg "Posting_Date": "max", over the "YYYY-MM-DD" texts of the rows
RECURSIVE PostingMax(_)
PostingMax(rows) ==
    IF Len(rows) = 1 THEN rows[1].Posting_Date
    ELSE LET m == PostingMax(Front(rows))
             x == Last(rows).Posting_Date
         IN  IF DateLess(m.ymd, x.ymd) THEN x ELSE m

\* variant: the map entry is subtracted
RequestedOfNegated(map, lot_no) == IF lot_no \in DOMAIN map THEN -map[lot_no] ELSE 0

\* lots_df["Lot_No"].map(requested_qty_map).fillna(0)
RequestedOf(map, lot_no) == IF lot_no \in DOMAIN map THEN map[lot_no] ELSE 0

\* one record of lots_df.to_dict("records")
AggregatedLot(rows, map, lot_no) ==
    LET mine == RowsOfLot(rows, lot_no)
        remaining == RemainingSum(mine)
        requested == RequestedOf(map, lot_no)
    IN  [Lot_No |-> lot_no,
         Remaining_Quantity |-> remaining,
         Posting_Date |-> PostingMax(mine),
         Requested_Quantity |-> requested,
         Available_Quantity |-> Round2(remaining + requested)]

\* groupby("Lot_No") leaves one record per lot number, ascending by Lot_No
group_lot_records(lot_ledger_entries, item_no, line_no, location_code, quantity, map) ==
    IF "value" \in DOMAIN lot_ledger_entries /\ Len(lot_ledger_entries.value) > 0
    THEN LET rows == lot_ledger_entries.value
             keys == SortByLotNo(LotNosOf(rows))
         IN  << [Item_No |-> item_no,
                 Line_No |-> line_no,
                 Location_Code |-> location_code,
                 Quantity |-> quantity,
                 Lot_Records |-> [i \in 1..Len(keys) |-> AggregatedLot(rows, map, keys[i])]] >>
    ELSE <<>>

\* the call made for one sales line by get_sales_order_lot_details
Aggregate ==
    /\ agg_pc = "call"
    /\ lot_list' = group_lot_records(ledger, "ITEM1", 10000, "MAIN", 5 * Grain2,
                                     requested_qty_map)
    /\ agg_pc' = "done"
    /\ UNCHANGED <<ledger, requested_qty_map>>
    /\ UNCHANGED <<allocVars, outerVars>>

-----------------------------------------------------------------------------
(* Inputs of the Aggregator *)

AggLotPool == { <<"A", "#", "P", "1", "-", "1">>, <<"B", "#", "P", "2", "-", "1">> }

AggDateValues == { <<2024, 1, 1>>, <<2024, 2, 1>> }

\* the ledger query keeps only rows with Remaining_Quantity > 0
RemainingValues == { 400, Grain2, Grain2 + 600 }

\* summed reservation quantities, negative by convention
RequestedValues == { -Grain2, -3 * Grain2 }

RowValues ==
    { [Lot_No |-> n, Remaining_Quantity |-> q, Posting_Date |-> [type |-> "str", ymd |-> d]] :
        n \in AggLotPool, q \in RemainingValues, d \in AggDateValues }

AllocIdle ==
    /\ lot_data = <<>>
    /\ pc = "idle"
    /\ ordered_lots = <<>>
    /\ idx = 0
    /\ selected_lots = <<>>
    /\ remaining_need = 0
    /\ outcomes = <<>>

InitAgg ==
    /\ \/ ledger = EmptyDict
       \/ \E n \in 0..MaxRows : \E rows \in [1..n -> RowValues] : ledger = [value |-> rows]
    /\ \E S \in SUBSET AggLotPool : requested_qty_map \in [S -> RequestedValues]
    /\ lot_list = <<>>
    /\ agg_pc = "call"
    /\ AllocIdle
    /\ OuterIdle

NextAgg == Aggregate

\* one call of group_lot_records on each ledger response
SpecAgg == InitAgg /\ [][NextAgg]_vars

-----------------------------------------------------------------------------
(* allocate_item_lots_fifo as one call *)

\* the for-loop of step 7 from position i on: the selections and the need it
\* ends with
RECURSIVE WalkLots(_, _, _, _)
WalkLots(ordered, i, selected, need) ==
    IF i > Len(ordered) \/ BreakNow(need)
    THEN [selected |-> selected, need |-> need]
    ELSE LET take == Take(ordered[i].Available_Quantity, need)
         IN  IF TakePositive(take)
             THEN WalkLots(ordered, i + 1,
                           Append(selected, Selection(ordered[i], take)), need - take)
             ELSE WalkLots(ordered, i + 1, selected, need)

\* one whole call: the request dict as the call leaves it, and how the call ends
allocate_item_lots_fifo(req) ==
    LET parsed == ParseLots(req.Lot_Records)
        after == [req EXCEPT !.Lot_Records = parsed]
    IN  IF \E i \in 1..Len(parsed) : ~HasPO(parsed[i])
        THEN [lot_data |-> after, outcome |-> Raise("KeyError")]
        ELSE LET end == WalkLots(FifoSequence(parsed), 1, <<>>, req.Quantity)
             IN  [lot_data |-> after,
                  outcome |-> Returned(AllocationResult(after, end.selected, end.need))]

-----------------------------------------------------------------------------
(* get_lot_requested_qty, get_sales_order_lot_details, allocate_sales_order_lots *)

\* one request sent to Business Central: the API, the sales line it was sent
\* for (0: the whole order) and whether it came back without a RequestException
BcRequest(api, line_no, ok) == [api |-> api, line |-> line_no, ok |-> ok]

\* requested_qty_map[lot_no] = requested_qty_map.get(lot_no, 0) + qty, entry after
\* entry; entries without a lotNo are passed over
RECURSIVE SumByLot(_)
SumByLot(entries) ==
    IF entries = <<>> THEN EmptyDict
    ELSE LET m == SumByLot(Front(entries))
             e == Last(entries)
         IN  IF e.lotNo = <<>> THEN m
             ELSE [k \in DOMAIN m \cup {e.lotNo} |->
                      (IF k \in DOMAIN m THEN m[k] ELSE 0)
                    + (IF k = e.lotNo THEN e.quantity ELSE 0)]

\* {} when the token or the query fails, else the sums per lot number
get_lot_requested_qty(entries, ok) == IF ok THEN SumByLot(entries) ELSE EmptyDict

\* [] when the token or the query fails
get_sales_order_lines(lines, ok) == IF ok THEN lines ELSE <<>>

\* ("", "N/A") when the lookup fails; only the code is used
get_company_location_code(ok) == IF ok THEN "MAIN" ELSE ""

\* {} when the token or the query fails
get_item_lot_ledger_entries(item_no, ok) == IF ok THEN item_ledger[item_no] ELSE EmptyDict

\* allocate_sales_order_lots up to the for-loop of get_sales_order_lot_details:
\* the company id is resolved, then the lines and the requested-quantity map are
\* fetched, once each
StartOrder ==
    /\ so_pc = "call"
    /\ \E company_ok \in BOOLEAN :
         IF ~company_ok
         THEN /\ so_outcome' = Raise("ValueError")
              /\ so_pc' = "done"
              /\ bc_requests' = Append(bc_requests, BcRequest("companies", 0, FALSE))
              /\ UNCHANGED <<sales_order_lines_data, requested_qty_map, lot_list, so_line>>
         ELSE \E lines_ok \in BOOLEAN, map_ok \in BOOLEAN :
              /\ sales_order_lines_data' = get_sales_order_lines(sales_order_lines, lines_ok)
              /\ requested_qty_map' = get_lot_requested_qty(reservations, map_ok)
              /\ bc_requests' = bc_requests \o
                     << BcRequest("companies", 0, TRUE),
                        BcRequest("salesOrderLines", 0, lines_ok),
                        BcRequest("ReservationEntries", 0, map_ok) >>
              /\ lot_list' = <<>>
              /\ so_line' = 1
              /\ so_pc' = "lines"
              /\ UNCHANGED so_outcome
    /\ UNCHANGED <<sales_order_lines, item_ledger, so_selected, reservations>>
    /\ UNCHANGED <<allocVars, ledger, agg_pc, insertVars, selectorVars, poVars, serviceVars>>

\* variant: the requested-quantity map is fetched again for every line
ProcessLineRefetching ==
    /\ so_pc = "lines"
    /\ so_line <= Len(sales_order_lines_data)
    /\ LET line_item == sales_order_lines_data[so_line]
           item_no == line_item.lineObjectNumber
           line_no == line_item.sequence
           quantity == line_item.quantity
       IN  \E loc_ok \in BOOLEAN, ledger_ok \in BOOLEAN, map_ok \in BOOLEAN :
             LET location_code == get_company_location_code(loc_ok)
                 map == get_lot_requested_qty(reservations, map_ok)
             IN  /\ requested_qty_map' = map
                 /\ IF location_code = ""
                    THEN /\ bc_requests' = bc_requests \o
                                << BcRequest("ReservationEntries", 0, map_ok),
                                   BcRequest("locations", line_no, loc_ok) >>
                         /\ UNCHANGED lot_list
                    ELSE /\ bc_requests' = bc_requests \o
                                << BcRequest("ReservationEntries", 0, map_ok),
                                   BcRequest("locations", line_no, loc_ok),
                                   BcRequest("ItemLedgerEntries", line_no, ledger_ok) >>
                         /\ lot_list' = lot_list \o
                                group_lot_records(
                                    get_item_lot_ledger_entries(item_no, ledger_ok),
                                    item_no, line_no, location_code, quantity, map)
    /\ so_line' = so_line + 1
    /\ UNCHANGED <<sales_order_lines, item_ledger, sales_order_lines_data, so_pc,
                   so_selected, so_outcome, reservations>>
    /\ UNCHANGED <<allocVars, ledger, agg_pc, insertVars, selectorVars, poVars, serviceVars>>

\* variant: a line whose location does not resolve ends the loop (break for
\* continue)
ProcessLineBreaking ==
    /\ so_pc = "lines"
    /\ so_line <= Len(sales_order_lines_data)
    /\ LET line_item == sales_order_lines_data[so_line]
           item_no == line_item.lineObjectNumber
           line_no == line_item.sequence
           quantity == line_item.quantity
       IN  \E loc_ok \in BOOLEAN, ledger_ok \in BOOLEAN :
             LET location_code == get_company_location_code(loc_ok)
             IN  IF location_code = ""
                 THEN /\ bc_requests' = Append(bc_requests,
                                               BcRequest("locations", line_no, loc_ok))
                      /\ so_line' = Len(sales_order_lines_data) + 1
                      /\ UNCHANGED lot_list
                 ELSE /\ bc_requests' = bc_requests \o
                             << BcRequest("locations", line_no, loc_ok),
                                BcRequest("ItemLedgerEntries", line_no, ledger_ok) >>
                      /\ so_line' = so_line + 1
                      /\ lot_list' = lot_list \o
                             group_lot_records(
                                 get_item_lot_ledger_entries(item_no, ledger_ok),
                                 item_no, line_no, location_code, quantity,
                                 requested_qty_map)
    /\ UNCHANGED <<sales_order_lines, item_ledger, sales_order_lines_data, so_pc,
                   so_selected, so_outcome, requested_qty_map, reservations>>
    /\ UNCHANGED <<allocVars, ledger, agg_pc, insertVars, selectorVars, poVars, serviceVars>>

\* one iteration of "for line_item in sales_order_lines_data"
ProcessLine ==
    /\ so_pc = "lines"
    /\ so_line <= Len(sales_order_lines_data)
    /\ LET line_item == sales_order_lines_data[so_line]
           item_no == line_item.lineObjectNumber
           line_no == line_item.sequence
           quantity == line_item.quantity
       IN  \E loc_ok \in BOOLEAN, ledger_ok \in BOOLEAN :
             LET location_code == get_company_location_code(loc_ok)
             IN  IF location_code = ""
                 THEN /\ bc_requests' = Append(bc_requests,
                                               BcRequest("locations", line_no, loc_ok))
                      /\ UNCHANGED lot_list
                 ELSE /\ bc_requests' = bc_requests \o
                             << BcRequest("locations", line_no, loc_ok),
                                BcRequest("ItemLedgerEntries", line_no, ledger_ok) >>
                      /\ lot_list' = lot_list \o
                             group_lot_records(
                                 get_item_lot_ledger_entries(item_no, ledger_ok),
                                 item_no, line_no, location_code, quantity,
                                 requested_qty_map)
    /\ so_line' = so_line + 1
    /\ UNCHANGED <<sales_order_lines, item_ledger, sales_order_lines_data, so_pc,
                   so_selected, so_outcome, requested_qty_map, reservations>>
    /\ UNCHANGED <<allocVars, ledger, agg_pc, insertVars, selectorVars, poVars, serviceVars>>

\* get_sales_order_lot_details returns lot_list; selected_lots = [] was set before
\* the call
LinesDone ==
    /\ so_pc = "lines"
    /\ so_line > Len(sales_order_lines_data)
    /\ so_pc' = "allocate"
    /\ so_line' = 1
    /\ so_selected' = <<>>
    /\ UNCHANGED <<sales_order_lines, item_ledger, sales_order_lines_data, so_outcome>>
    /\ UNCHANGED <<allocVars, aggVars, bcVars, insertVars, selectorVars, poVars, serviceVars>>

\* variant: no try/except around the call, the first failing line ends the loop
AllocateLineAborting ==
    /\ so_pc = "allocate"
    /\ so_line <= Len(lot_list)
    /\ LET call == allocate_item_lots_fifo(lot_list[so_line])
       IN  /\ lot_list' = [lot_list EXCEPT ![so_line] = call.lot_data]
           /\ IF call.outcome.kind = "return"
              THEN /\ so_selected' = Append(so_selected, call.outcome.value)
                   /\ so_line' = so_line + 1
              ELSE /\ so_selected' = so_selected
                   /\ so_line' = Len(lot_list) + 1
    /\ UNCHANGED <<sales_order_lines, item_ledger, sales_order_lines_data, so_pc, so_outcome>>
    /\ UNCHANGED <<allocVars, ledger, requested_qty_map, agg_pc>>
    /\ UNCHANGED <<bcVars, insertVars, selectorVars, poVars, serviceVars>>

\* one iteration of "for lot_data in lot_list": the dict in lot_list is the object
\* the Allocator works on; a raised exception is logged and the loop goes on
AllocateLine ==
    /\ so_pc = "allocate"
    /\ so_line <= Len(lot_list)
    /\ LET call == allocate_item_lots_fifo(lot_list[so_line])
       IN  /\ lot_list' = [lot_list EXCEPT ![so_line] = call.lot_data]
           /\ so_selected' = IF call.outcome.kind = "return"
                             THEN Append(so_selected, call.outcome.value)
                             ELSE so_selected
    /\ so_line' = so_line + 1
    /\ UNCHANGED <<sales_order_lines, item_ledger, sales_order_lines_data, so_pc, so_outcome>>
    /\ UNCHANGED <<allocVars, ledger, requested_qty_map, agg_pc>>
    /\ UNCHANGED <<bcVars, insertVars, selectorVars, poVars, serviceVars>>

\* return {"status": "success", "lot_list": lot_list, "selected_lots": selected_lots}
ReturnOrder ==
    /\ so_pc = "allocate"
    /\ so_line > Len(lot_list)
    /\ so_outcome' = Returned([status |-> "success",
                               lot_list |-> lot_list,
                               selected_lots |-> so_selected])
    /\ so_pc' = "done"
    /\ UNCHANGED <<sales_order_lines, item_ledger, sales_order_lines_data, so_line,
                   so_selected>>
    /\ UNCHANGED <<allocVars, aggVars, bcVars, insertVars, selectorVars, poVars, serviceVars>>

-----------------------------------------------------------------------------
(* insert_lot_into_sales_order, _insert_item_lots_for_sales_order,
   _create_reservation_entry *)

\* variant: the quantity is sent as it was selected, not negated
PayloadUnsigned(item_lot_group, lot_entry, sales_order_no) ==
    [itemNo |-> item_lot_group.Item_No,
     locationCode |-> item_lot_group.Location_Code,
     quantityBase |-> lot_entry.Selected_Qty,
     lotNo |-> lot_entry.Lot_No,
     reservationStatus |-> "Prospect",
     sourceType |-> 37,
     sourceSubtype |-> "1",
     sourceID |-> sales_order_no,
     sourceRefNo |-> item_lot_group.Line_No,
     Quantity |-> lot_entry.Selected_Qty]

\* the JSON body of the POST (creationDate, today's date, is left out)
Payload(item_lot_group, lot_entry, sales_order_no) ==
    [itemNo |-> item_lot_group.Item_No,
     locationCode |-> item_lot_group.Location_Code,
     quantityBase |-> -lot_entry.Selected_Qty,
     lotNo |-> lot_entry.Lot_No,
     reservationStatus |-> "Prospect",
     sourceType |-> 37,
     sourceSubtype |-> "1",
     sourceID |-> sales_order_no,
     sourceRefNo |-> item_lot_group.Line_No,
     Quantity |-> -lot_entry.Selected_Qty]

\* if lot_no is None or qty_assigned is None: continue
\* (dict.get gives None for an absent key; a quantity that is None is carried
\* as an absent Selected_Qty)
SkipsEntry(lot_entry) ==
    \/ "Lot_No" \notin DOMAIN lot_entry
    \/ lot_entry.Lot_No = None
    \/ "Selected_Qty" \notin DOMAIN lot_entry

\* the POST as it is logged
PostRequest(payload, ok) ==
    [api |-> "POST ReservationEntries", line |-> payload.sourceRefNo, ok |-> ok,
     payload |-> payload]

\* the row a successful POST adds to the ReservationEntries table, as
\* get_lot_requested_qty reads it back
ReservationEntry(payload) ==
    [lotNo |-> payload.lotNo,
     quantity |-> payload.Quantity,
     itemNo |-> payload.itemNo,
     sourceID |-> payload.sourceID,
     sourceRefNo |-> payload.sourceRefNo]

\* one iteration of "for lot_entry in selected_lots" of
\* _insert_item_lots_for_sales_order: an entry without lot or quantity is passed
\* over, every other entry is posted; a failed POST is logged and the loop goes on
InsertLot ==
    /\ insert_pc = "call"
    /\ insert_pos[1] <= Len(insert_args.selected_lots)
    /\ LET item_lot_group == insert_args.selected_lots[insert_pos[1]]
       IN  /\ insert_pos[2] <= Len(item_lot_group.Selected_Lots)
           /\ LET lot_entry == item_lot_group.Selected_Lots[insert_pos[2]]
              IN  IF SkipsEntry(lot_entry)
                  THEN UNCHANGED <<reservations, bc_requests>>
                  ELSE LET payload == Payload(item_lot_group, lot_entry,
                                              insert_args.sales_order_no)
                       IN  \E ok \in BOOLEAN :
                             /\ bc_requests' = Append(bc_requests, PostRequest(payload, ok))
                             /\ reservations' =
                                  IF ok THEN Append(reservations, ReservationEntry(payload))
                                  ELSE reservations
    /\ insert_pos' = <<insert_pos[1], insert_pos[2] + 1>>
    /\ UNCHANGED <<insert_args, insert_pc, insert_outcomes>>
    /\ UNCHANGED <<allocVars, aggVars, orchVars, selectorVars, poVars, serviceVars>>

\* _insert_item_lots_for_sales_order returns; "for item_lot in selected_lots" goes on
InsertNextItem ==
    /\ insert_pc = "call"
    /\ insert_pos[1] <= Len(insert_args.selected_lots)
    /\ insert_pos[2] > Len(insert_args.selected_lots[insert_pos[1]].Selected_Lots)
    /\ insert_pos' = <<insert_pos[1] + 1, 1>>
    /\ UNCHANGED <<insert_args, insert_pc, insert_outcomes>>
    /\ UNCHANGED <<allocVars, aggVars, bcVars, orchVars, selectorVars, poVars, serviceVars>>

\* return {"status": "success"}
InsertReturn ==
    /\ insert_pc = "call"
    /\ insert_pos[1] > Len(insert_args.selected_lots)
    /\ insert_outcomes' = Append(insert_outcomes, Returned([status |-> "success"]))
    /\ insert_pc' = "done"
    /\ UNCHANGED <<insert_args, insert_pos>>
    /\ UNCHANGED <<allocVars, aggVars, bcVars, orchVars, selectorVars, poVars, serviceVars>>

\* the caller retries: the same selected_lots and sales order number once more
InsertAgain ==
    /\ insert_pc = "done"
    /\ Len(insert_outcomes) = 1
    /\ insert_pc' = "call"
    /\ insert_pos' = <<1, 1>>
    /\ UNCHANGED <<insert_args, insert_outcomes>>
    /\ UNCHANGED <<allocVars, aggVars, bcVars, orchVars, selectorVars, poVars, serviceVars>>

-----------------------------------------------------------------------------
(* Sales orders and what Business Central answers *)

\* lot numbers in the item ledger
LotA1 == <<"A", "#", "P", "1", "-", "1">>
LotB1 == <<"B", "#", "P", "2", "-", "1">>
LotX9 == <<"X", "9">>

\* the i-th line of salesOrderLines; sequence is the line number
SalesLine(i, item, q) ==
    [sequence |-> 10000 * i, lineObjectNumber |-> item, locationId |-> "LOC1",
     quantity |-> q]

\* item and quantity of the lines an order is made of
LineValues ==
    { <<"ITEM1", Grain2 + 6>>, <<"ITEM1", 5 * Grain2>>, <<"ITEM2", 5 * Grain2>>,
      <<"ITEM3", Grain2 + 6>> }

LedgerRow(lot_no, q, ymd) ==
    [Lot_No |-> lot_no, Remaining_Quantity |-> q,
     Posting_Date |-> [type |-> "str", ymd |-> ymd]]

\* ITEM1 has rows of two lots with well-formed dates, ITEM2 a row whose
\* Posting_Date is not a calendar date, ITEM3 no rows
ItemLedgerEntries ==
    [item \in {"ITEM1", "ITEM2", "ITEM3"} |->
        CASE item = "ITEM1" ->
               [value |-> << LedgerRow(LotA1, Grain2 + 600, <<2024, 2, 1>>),
                             LedgerRow(LotX9, 2 * Grain2, <<2024, 1, 1>>),
                             LedgerRow(LotA1, 400, <<2024, 3, 1>>) >>]
          [] item = "ITEM2" ->
               [value |-> << LedgerRow(LotB1, Grain2, <<2024, 2, 30>>) >>]
          [] item = "ITEM3" -> [value |-> <<>>]]

\* the ReservationEntries table before the order is processed
ReservationTable ==
    << [lotNo |-> LotX9, quantity |-> -Grain2, itemNo |-> "ITEM1",
        sourceID |-> "SO0", sourceRefNo |-> 10000] >>

\* an entry of Selected_Lots
SelectedEntry(lot_no, qty) ==
    [Lot_No |-> lot_no, PO |-> get_PO(lot_no),
     Posting_Date |-> [type |-> "str", ymd |-> <<2024, 1, 1>>],
     Selected_Qty |-> qty]

\* an allocation result as insert_lot_into_sales_order receives it
ItemLots(item_no, line_no, entries) ==
    [Item_No |-> item_no, Line_No |-> line_no, Location_Code |-> "MAIN",
     Requested_Qty |-> 3 * Grain2, Selected_Lots |-> entries, Unfulfilled_Qty |-> 0]

\* the reservation another sales order writes while this one is processed
OtherOrderArgs ==
    [selected_lots |->
        << ItemLots("ITEM1", 10000,
                    << SelectedEntry(LotA1, Grain2) >>) >>,
     sales_order_no |-> "SO2"]

OrchStart ==
    /\ sales_order_lines_data = <<>>
    /\ so_pc = "call"
    /\ so_line = 0
    /\ so_selected = <<>>
    /\ so_outcome = <<>>

InsertStart ==
    /\ insert_pc = "call"
    /\ insert_pos = <<1, 1>>
    /\ insert_outcomes = <<>>

InitOrder ==
    /\ \E n \in 0..MaxLines :
         \E line \in [1..n -> LineValues] :
            sales_order_lines = [i \in 1..n |-> SalesLine(i, line[i][1], line[i][2])]
    /\ item_ledger = ItemLedgerEntries
    /\ reservations = ReservationTable
    /\ bc_requests = <<>>
    /\ OrchStart
    /\ insert_args = OtherOrderArgs
    /\ InsertStart
    /\ AllocIdle
    /\ AggIdle
    /\ SelectorIdle
    /\ PoIdle
    /\ ServiceIdle

NextOrder ==
    \/ StartOrder \/ ProcessLine \/ LinesDone \/ AllocateLine \/ ReturnOrder
    \/ InsertLot \/ InsertNextItem \/ InsertReturn

\* one call of allocate_sales_order_lots, while insert_lot_into_sales_order runs
\* for another order
SpecOrder == InitOrder /\ [][NextOrder]_vars

-----------------------------------------------------------------------------
(* Selections handed to insert_lot_into_sales_order *)

\* an entry that came without a lot number
EntryWithoutLot(qty) == SelectedEntry(None, qty)

\* an entry that came without a quantity
EntryWithoutQty(lot_no) ==
    [Lot_No |-> lot_no, PO |-> get_PO(lot_no),
     Posting_Date |-> [type |-> "str", ymd |-> <<2024, 1, 1>>]]

\* allocation results a caller sends: two lots, one lot, no lot, and one with
\* entries that lack the lot number or the quantity
ItemLotsValues ==
    { ItemLots("ITEM1", 10000, << SelectedEntry(LotA1, Grain2), SelectedEntry(LotB1, 2 * Grain2) >>),
      ItemLots("ITEM2", 20000, << SelectedEntry(LotX9, Grain2 + Grain4) >>),
      ItemLots("ITEM2", 20000, <<>>),
      ItemLots("ITEM1", 30000, << EntryWithoutLot(Grain2), EntryWithoutQty(LotB1),
                                  SelectedEntry(LotA1, 3 * Grain2) >>) }

InitInsert ==
    /\ \E n \in 0..MaxItems : \E sel \in [1..n -> ItemLotsValues] :
         insert_args = [selected_lots |-> sel, sales_order_no |-> "SO1"]
    /\ InsertStart
    /\ BcIdle
    /\ OrchIdle
    /\ AllocIdle
    /\ AggIdle
    /\ SelectorIdle
    /\ PoIdle
    /\ ServiceIdle

NextInsert == InsertLot \/ InsertNextItem \/ InsertReturn \/ InsertAgain

\* insert_lot_into_sales_order, called once and then once more with the same
\* arguments
SpecInsert == InitInsert /\ [][NextInsert]_vars

-----------------------------------------------------------------------------
(* Requests with lots as raw as the ledger can send them *)

\* a lot number with '#' and '-' but nothing between them
LotD0 == <<"D", "#", "-", "1">>

\* two lot numbers with a PO token, two without
RawLotPool == { LotA1, LotB1, LotD0, LotX9 }

\* well-formed texts, a text that is no calendar date, and a value that is
\* neither str nor date (None)
RawPostingValues ==
    { [type |-> "str", ymd |-> <<2024, 1, 1>>],
      [type |-> "str", ymd |-> <<2024, 2, 1>>],
      [type |-> "str", ymd |-> <<2024, 3, 1>>],
      [type |-> "str", ymd |-> <<2024, 2, 30>>],
      [type |-> "NoneType", ymd |-> <<>>] }

RawRequest(S, p, q) ==
    LET names == SortByLotNo(S)
    IN  [Item_No |-> "ITEM1",
         Line_No |-> 10000,
         Location_Code |-> "MAIN",
         Quantity |-> q,
         Lot_Records |-> [i \in 1..Len(names) |->
             [LotRecord(names[i], <<2024, 1, 1>>, 2 * Grain2)
                 EXCEPT !.Posting_Date = p[names[i]]]]]

InitRaw ==
    /\ \E S \in SUBSET RawLotPool :
         /\ Cardinality(S) <= MaxLots
         /\ \E p \in [S -> RawPostingValues], q \in RecallQuantityValues :
                lot_data = RawRequest(S, p, q)
    /\ AllocStart
    /\ AggIdle
    /\ OuterIdle

NextRaw == Prepare \/ Walk \/ Return \/ CallAgain

\* up to MaxCalls calls of allocate_item_lots_fifo on a request whose lots may
\* have no PO token or no usable Posting_Date
SpecRaw == InitRaw /\ [][NextRaw]_vars

-----------------------------------------------------------------------------
(* Lot numbers handed to get_PO *)

\* the characters the pattern tells apart, and one that it does not
LotNoChars == { "#", "-", " ", "/", "P" }

LotNoValues == UNION { [1..n -> LotNoChars] : n \in 0..MaxLen }

\* get_PO(lot_no) is called
CallGetPO ==
    /\ po_returned = <<>>
    /\ po_returned' = <<get_PO(po_lot_no)>>
    /\ UNCHANGED po_lot_no
    /\ UNCHANGED <<allocVars, aggVars, bcVars, orchVars, insertVars, selectorVars, serviceVars>>

InitPO ==
    /\ po_lot_no \in LotNoValues
    /\ po_returned = <<>>
    /\ AllocIdle
    /\ AggIdle
    /\ BcIdle
    /\ OrchIdle
    /\ InsertIdle
    /\ SelectorIdle
    /\ ServiceIdle

NextPO == CallGetPO

\* one call of get_PO on each lot number
SpecPO == InitPO /\ [][NextPO]_vars

-----------------------------------------------------------------------------
(* LotSelector (backend/src/utils/lot_selector.py) *)

\* variant: only a negative quantity is rejected
RejectsNegativeQty(required_qty) == required_qty < 0

\* if required_qty <= 0: raise ValueError
RejectsQty(required_qty) == required_qty <= 0

\* Timestamp.strftime("%Y-%m-%d")
strftime(posting_date) == [type |-> "str", ymd |-> posting_date.ymd]

\* the dict appended to self.selected_lots
SelectorRecord(lot, qty_to_take) ==
    [Lot_No |-> lot.Lot_No,
     Available_Qty |-> lot.Remaining_Quantity,
     Allocated_Qty |-> qty_to_take,
     Remaining_After |-> lot.Remaining_Quantity - qty_to_take,
     Posting_Date |-> strftime(lot.Posting_Date)]

\* "for index, lot in self.available_lots.iterrows()" from row i on: every row
\* reached before the need is covered is recorded, whatever it holds
RECURSIVE SelectorWalk(_, _, _, _)
SelectorWalk(lots, i, selected, remaining_to_allocate) ==
    IF i > Len(lots) \/ remaining_to_allocate <= 0 THEN selected
    ELSE LET qty_to_take == Min(lots[i].Remaining_Quantity, remaining_to_allocate)
         IN  SelectorWalk(lots, i + 1,
                          Append(selected, SelectorRecord(lots[i], qty_to_take)),
                          remaining_to_allocate - qty_to_take)

\* quantities asked of LotSelector.allocate
SelectorQuantityValues == { -Grain2, 0, Grain2 + 6, 5 * Grain2 }

\* LotSelector.allocate(required_qty): the records are appended to the
\* instance's selected_lots, which is also what is returned
SelectorAllocate ==
    /\ Len(selector_calls) < MaxSelectorCalls
    /\ \E required_qty \in SelectorQuantityValues :
         IF RejectsQty(required_qty)
         THEN /\ selector_calls' = Append(selector_calls,
                     [required_qty |-> required_qty, outcome |-> Raise("ValueError")])
              /\ UNCHANGED selector_selected
         ELSE LET selected == SelectorWalk(available_lots, 1, selector_selected,
                                           required_qty)
              IN  /\ selector_selected' = selected
                  /\ selector_calls' = Append(selector_calls,
                         [required_qty |-> required_qty, outcome |-> Returned(selected)])
    /\ UNCHANGED available_lots
    /\ UNCHANGED <<allocVars, aggVars, bcVars, orchVars, insertVars, poVars, serviceVars>>

\* a row of the DataFrame after __init__: Posting_Date is a Timestamp
SelectorLot(lot_no, q, ymd) ==
    [Lot_No |-> lot_no, Remaining_Quantity |-> q,
     Posting_Date |-> [type |-> "datetime", ymd |-> ymd]]

SelectorLotPool == { LotA1, LotB1, LotX9 }

SelectorDateValues == { <<2024, 1, 1>>, <<2024, 2, 1>> }

SelectorRemainingValues == { Grain2, 2 * Grain2 }

\* LotSelector(available_lots): the rows sorted by Posting_Date, rows of the
\* same date in any order; selected_lots = []
InitSelector ==
    /\ \E S \in SUBSET SelectorLotPool :
         /\ Cardinality(S) <= MaxLots
         /\ \E d \in [S -> SelectorDateValues], q \in [S -> SelectorRemainingValues] :
              \E f \in [1..Cardinality(S) -> S] :
                 /\ \A i, j \in 1..Cardinality(S) : i # j => f[i] # f[j]
                 /\ \A i, j \in 1..Cardinality(S) : i < j => ~DateLess(d[f[j]], d[f[i]])
                 /\ available_lots = [i \in 1..Cardinality(S) |->
                                         SelectorLot(f[i], q[f[i]], d[f[i]])]
    /\ selector_selected = <<>>
    /\ selector_calls = <<>>
    /\ AllocIdle
    /\ AggIdle
    /\ BcIdle
    /\ OrchIdle
    /\ InsertIdle
    /\ PoIdle
    /\ ServiceIdle

NextSelector == SelectorAllocate

\* up to MaxSelectorCalls calls of allocate on one LotSelector
SpecSelector == InitSelector /\ [][NextSelector]_vars

-----------------------------------------------------------------------------
(* The environment selector: utils/bc_env.py, web/app.py, agents/tools.py *)

\* class BCEnvironment(str, Enum): the members
BCEnvironment == { "TEST", "PRODUCTION" }

\* member.value
EnvValue(env) == IF env = "TEST" THEN "JotexTest" ELSE "Production"

\* get_current_bc_env_value(): the value of the module global of bc_env.py
get_current_bc_env_value == EnvValue(CURRENT_BC_ENV)

\* get_bc_auth(): a new client for the environment current at the call
get_bc_auth == [azure_bc_env_name |-> get_current_bc_env_value]

\* POST /api/config/set_bc_env: set_current_bc_env rebinds the global of
\* bc_env.py; the response is built from the name web/app.py imported
set_bc_env ==
    /\ Len(env_served) < MaxServed
    /\ \E env_name \in BCEnvironment :
         /\ CURRENT_BC_ENV' = env_name
         /\ env_served' = Append(env_served,
                [kind |-> "set_bc_env",
                 env_name |-> env_name,
                 response |-> [bc_env_name |-> EnvValue(app_CURRENT_BC_ENV)]])
    /\ UNCHANGED <<app_CURRENT_BC_ENV, bc_auth>>
    /\ UNCHANGED <<allocVars, aggVars, bcVars, orchVars, insertVars, selectorVars, poVars,
                   tokenVars>>

\* an endpoint that starts with auth = get_bc_auth() serves a request
ServeEndpoint ==
    /\ Len(env_served) < MaxServed
    /\ env_served' = Append(env_served,
           [kind |-> "endpoint", azure_bc_env_name |-> get_bc_auth.azure_bc_env_name])
    /\ UNCHANGED <<CURRENT_BC_ENV, app_CURRENT_BC_ENV, bc_auth>>
    /\ UNCHANGED <<allocVars, aggVars, bcVars, orchVars, insertVars, selectorVars, poVars,
                   tokenVars>>

\* search_customers_by_name or search_product_items_by_name runs: both use the
\* module-level bc_auth
SearchTool ==
    /\ Len(env_served) < MaxServed
    /\ env_served' = Append(env_served,
           [kind |-> "tool", azure_bc_env_name |-> bc_auth.azure_bc_env_name])
    /\ UNCHANGED <<CURRENT_BC_ENV, app_CURRENT_BC_ENV, bc_auth>>
    /\ UNCHANGED <<allocVars, aggVars, bcVars, orchVars, insertVars, selectorVars, poVars,
                   tokenVars>>

\* the process after its imports: bc_env.py sets the global from the
\* configuration, web/app.py copies it into its own name, agents/tools.py builds
\* its client
InitEnv ==
    /\ CURRENT_BC_ENV \in BCEnvironment
    /\ app_CURRENT_BC_ENV = CURRENT_BC_ENV
    /\ bc_auth = get_bc_auth
    /\ env_served = <<>>
    /\ TokenIdle
    /\ AllocIdle
    /\ AggIdle
    /\ BcIdle
    /\ OrchIdle
    /\ InsertIdle
    /\ SelectorIdle
    /\ PoIdle

NextEnv == set_bc_env \/ ServeEndpoint \/ SearchTool

\* up to MaxServed requests, in any order
SpecEnv == InitEnv /\ [][NextEnv]_vars

-----------------------------------------------------------------------------
(* The token cache: BusinessCentralAuth.get_access_token, _request_new_token *)

\* "- 60  # safety margin"
SafetyMargin == 60
\* body.get("expires_in", 3600)
DefaultExpiresIn == 3600

\* the token the next successful request hands out: every request a new one
NextToken == << 1 + Cardinality({k \in 1..Len(token_calls) : token_calls[k].requested}) >>

\* what the token request can end with: an exception (no connection, a status
\* other than 200), or a 200 body with or without access_token and expires_in
TokenResponses ==
    { [raised |-> TRUE, body |-> [error |-> "unavailable"]],
      [raised |-> FALSE, body |-> [error |-> "invalid_client"]],
      [raised |-> FALSE, body |-> [access_token |-> NextToken]] }
    \cup { [raised |-> FALSE, body |-> [access_token |-> NextToken, expires_in |-> n]] :
             n \in {30, 60, 90} }

\* variant: the token is still used at its deadline
TokenFreshAtDeadline(token, time, deadline) == token # None /\ time <= deadline

\* if self._access_token and now < self._expires_at
TokenFresh(token, time, deadline) == token # None /\ time < deadline

\* _request_new_token, given the response and the time.time() taken after it:
\* the cache it leaves and the value it returns
request_new_token(response, time) ==
    IF response.raised \/ "access_token" \notin DOMAIN response.body
    THEN [access_token |-> None, expires_at |-> 0, returned |-> None, expires_in |-> 0]
    ELSE LET token == response.body.access_token
             expires_in == IF "expires_in" \in DOMAIN response.body
                           THEN response.body.expires_in ELSE DefaultExpiresIn
         IN  [access_token |-> token,
              expires_at |-> time + expires_in - SafetyMargin,
              returned |-> token,
              expires_in |-> expires_in]

\* get_access_token(): the cached token while it is fresh, else a token request,
\* which may take time
get_access_token ==
    /\ Len(token_calls) < MaxTokenCalls
    /\ IF TokenFresh(access_token, now, expires_at)
       THEN /\ token_calls' = Append(token_calls,
                   [at |-> now, requested |-> FALSE, ok |-> TRUE,
                    returned |-> access_token, acquired_at |-> 0, expires_in |-> 0])
            /\ UNCHANGED <<access_token, expires_at, now>>
       ELSE \E response \in TokenResponses, took \in {0, 30} :
              LET result == request_new_token(response, now + took)
              IN  /\ access_token' = result.access_token
                  /\ expires_at' = result.expires_at
                  /\ now' = now + took
                  /\ token_calls' = Append(token_calls,
                         [at |-> now, requested |-> TRUE,
                          ok |-> result.returned # None,
                          returned |-> result.returned,
                          acquired_at |-> now + took,
                          expires_in |-> result.expires_in])
    /\ UNCHANGED <<allocVars, aggVars, bcVars, orchVars, insertVars, selectorVars, poVars,
                   envVars>>

\* time passes between two calls
Tick ==
    /\ now < MaxTime
    /\ now' = now + 30
    /\ UNCHANGED <<access_token, expires_at, token_calls>>
    /\ UNCHANGED <<allocVars, aggVars, bcVars, orchVars, insertVars, selectorVars, poVars,
                   envVars>>

\* BusinessCentralAuth.__init__: nothing cached
InitToken ==
    /\ access_token = None
    /\ expires_at = 0
    /\ now = 0
    /\ token_calls = <<>>
    /\ EnvIdle
    /\ AllocIdle
    /\ AggIdle
    /\ BcIdle
    /\ OrchIdle
    /\ InsertIdle
    /\ SelectorIdle
    /\ PoIdle

NextTokenCache == get_access_token \/ Tick

\* up to MaxTokenCalls calls of get_access_token on one client, as time passes
SpecToken == InitToken /\ [][NextTokenCache]_vars

-----------------------------------------------------------------------------
(* Vocabulary of the properties *)

Done == pc = "done" /\ outcomes # <<>>
LastOutcome == outcomes[Len(outcomes)]
ReturnedResult == Done /\ LastOutcome.kind = "return"
Result == LastOutcome.value
Records == lot_data.Lot_Records
Required == lot_data.Quantity

\* sum of Available_Quantity over all lots of the request
TotalAvailable == SumSeq([i \in 1..Len(Records) |-> Records[i].Available_Quantity])

\* sum of Available_Quantity over the lots that have some
PositiveAvailable ==
    SumSeq([i \in 1..Len(Records) |->
               IF Records[i].Available_Quantity > 0 THEN Records[i].Available_Quantity ELSE 0])

SelectedTotal(r) ==
    SumSeq([i \in 1..Len(r.Selected_Lots) |-> r.Selected_Lots[i].Selected_Qty])

\* the request's record of a lot number
RecordOf(lot_no) ==
    CHOOSE rec \in {Records[i] : i \in 1..Len(Records)} : rec.Lot_No = lot_no

\* a quantity that round(x, 4) changes
HasFifthDecimal(q) == q % Grain4 # 0

-----------------------------------------------------------------------------
(* C1 *)

\* C1 as stated: with required_quantity > 0 and a non-empty lot list whose
\* available quantities sum to at least required_quantity, the result has
\* unfulfilled_qty = 0 and selected quantities that sum to required_quantity exactly.
C1_AsStated ==
    (Done /\ Required > 0 /\ Records # <<>> /\ TotalAvailable >= Required)
        => /\ LastOutcome.kind = "return"
           /\ Result.Unfulfilled_Qty = 0
           /\ SelectedTotal(Result) = Required

\* C1 amended: with required_quantity > 0 and a non-empty lot list whose available
\* quantities sum to at least required_quantity, the result has unfulfilled_qty = 0
\* and selected quantities whose sum is within 0.0001 of required_quantity (each
\* selected_qty is rounded to 4 decimals).
C1_SufficientStockIsFulfilled ==
    (Done /\ Required > 0 /\ Records # <<>> /\ TotalAvailable >= Required)
        => /\ LastOutcome.kind = "return"
           /\ Result.Unfulfilled_Qty = 0
           /\ Abs(SelectedTotal(Result) - Required) < Grain4

C1_Witness ==
    /\ ReturnedResult
    /\ Required > 0
    /\ TotalAvailable >= Required
    /\ HasFifthDecimal(Required)
    /\ Len(Result.Selected_Lots) >= 2

-----------------------------------------------------------------------------
(* C2 *)

EveryPositiveLotFullyConsumed(r) ==
    \A i \in 1..Len(Records) :
        Records[i].Available_Quantity > 0 =>
            \E j \in 1..Len(r.Selected_Lots) :
                /\ r.Selected_Lots[j].Lot_No = Records[i].Lot_No
                /\ r.Selected_Lots[j].Selected_Qty = Records[i].Available_Quantity

\* C2 as stated: with required_quantity > 0 and available quantities that, summed
\* over all lots, total less than required_quantity, every lot with positive
\* availability is selected in full and unfulfilled_qty is exactly required_quantity
\* minus the positive availability.
C2_AsStated ==
    (Done /\ Required > 0 /\ TotalAvailable < Required)
        => /\ LastOutcome.kind = "return"
           /\ EveryPositiveLotFullyConsumed(Result)
           /\ Result.Unfulfilled_Qty = Required - PositiveAvailable

\* C2 amended: with required_quantity > 0 and available quantities that, summed over
\* the lots with positive availability, total less than required_quantity, every lot
\* with positive availability is selected in full and unfulfilled_qty is within
\* 0.0001 of required_quantity minus that sum (it is rounded to 4 decimals).
C2_InsufficientStockIsExhausted ==
    (Done /\ Required > 0 /\ PositiveAvailable < Required)
        => /\ LastOutcome.kind = "return"
           /\ EveryPositiveLotFullyConsumed(Result)
           /\ Abs(Result.Unfulfilled_Qty - (Required - PositiveAvailable)) < Grain4

C2_Witness ==
    /\ ReturnedResult
    /\ PositiveAvailable < Required
    /\ TotalAvailable < PositiveAvailable
    /\ HasFifthDecimal(Required)
    /\ Len(Result.Selected_Lots) >= 2

-----------------------------------------------------------------------------
(* C3 *)

\* earliest posting date over all lots of the request whose Lot_No carries token po
EarliestOfGroup(po) ==
    LET ds == {Records[i].Posting_Date.ymd :
                  i \in {k \in 1..Len(Records) : get_PO(Records[k].Lot_No) = po}}
    IN  CHOOSE d \in ds : \A e \in ds : ~DateLess(e, d)

InFifoOrder(sel) ==
    /\ \A i, j \in 1..Len(sel) :
          i < j =>
              IF sel[i].PO = sel[j].PO
              THEN ~DateLess(sel[j].Posting_Date.ymd, sel[i].Posting_Date.ymd)
              ELSE ~DateLess(EarliestOfGroup(sel[j].PO), EarliestOfGroup(sel[i].PO))
    /\ \A i, j, k \in 1..Len(sel) :
          (i < k /\ k < j /\ sel[i].PO = sel[j].PO) => sel[k].PO = sel[i].PO

LotA == <<"A", "#", "P", "1", "-", "1">>
LotB == <<"B", "#", "P", "2", "-", "1">>
LotC == <<"C", "#", "P", "1", "-", "2">>

\* the example of the claim, with every quantity divided by 250:
\* A#P1-1 (2024-03-01, 0.02), B#P2-1 (2024-01-01, 0.02), C#P1-2 (2024-02-01, 0.02),
\* required 0.05 (the 5 : 12 of the claim's example is kept as 2 : 5)
IsExampleRequest ==
    /\ Len(Records) = 3
    /\ Required = 5 * Grain2
    /\ \A i \in 1..3 : Records[i].Available_Quantity = 2 * Grain2
    /\ Records[1].Lot_No = LotA /\ Records[1].Posting_Date.ymd = <<2024, 3, 1>>
    /\ Records[2].Lot_No = LotB /\ Records[2].Posting_Date.ymd = <<2024, 1, 1>>
    /\ Records[3].Lot_No = LotC /\ Records[3].Posting_Date.ymd = <<2024, 2, 1>>

ExampleSelection ==
    << [Lot_No |-> LotB, PO |-> <<"P", "2">>,
        Posting_Date |-> [type |-> "str", ymd |-> <<2024, 1, 1>>],
        Selected_Qty |-> 2 * Grain2],
       [Lot_No |-> LotC, PO |-> <<"P", "1">>,
        Posting_Date |-> [type |-> "str", ymd |-> <<2024, 2, 1>>],
        Selected_Qty |-> 2 * Grain2],
       [Lot_No |-> LotA, PO |-> <<"P", "1">>,
        Posting_Date |-> [type |-> "str", ymd |-> <<2024, 3, 1>>],
        Selected_Qty |-> Grain2] >>

\* C3: selected_lots is in FIFO-sequence order: lots sharing a PO token are
\* contiguous and in ascending posting_date order, and the PO groups come in
\* ascending order of each group's earliest posting_date over all its lots; the
\* example request yields B in full, C in full, then the rest from A, nothing
\* unfulfilled.
C3_SelectedInFifoOrder ==
    ReturnedResult
        => /\ InFifoOrder(Result.Selected_Lots)
           /\ IsExampleRequest =>
                 /\ Result.Selected_Lots = ExampleSelection
                 /\ Result.Unfulfilled_Qty = 0

C3_Witness == ReturnedResult /\ IsExampleRequest

-----------------------------------------------------------------------------
(* C4 *)

\* C4: a lot with available_quantity <= 0 never appears in selected_lots (neither
\* while the FIFO sequence is walked nor in the result), and no step of the walk
\* increases remaining_need.
C4_NonPositiveLotsAreSkipped ==
    [][ /\ (pc = "walk" /\ pc' = "walk") =>
              /\ remaining_need' <= remaining_need
              /\ \A i \in 1..Len(selected_lots') :
                    RecordOf(selected_lots'[i].Lot_No).Available_Quantity > 0
        /\ (pc = "walk" /\ pc' = "done") =>
              \A i \in 1..Len(LastOutcome'.value.Selected_Lots) :
                  RecordOf(LastOutcome'.value.Selected_Lots[i].Lot_No).Available_Quantity > 0
      ]_vars

\* the walk has passed a lot without availability and has selected a later lot
C4_Witness ==
    /\ pc = "walk"
    /\ \E i \in 1..Len(ordered_lots) :
          /\ i < idx
          /\ ordered_lots[i].Available_Quantity <= 0
          /\ \E j \in 1..Len(selected_lots), k \in 1..Len(ordered_lots) :
                /\ i < k /\ k < idx
                /\ selected_lots[j].Lot_No = ordered_lots[k].Lot_No

-----------------------------------------------------------------------------
(* C5 *)

\* C5: a request with required_quantity <= 0 raises a validation error and never
\* yields an allocation result.
C5_NonPositiveQuantityRaises ==
    (Done /\ Required <= 0) => LastOutcome.kind = "raise"

-----------------------------------------------------------------------------
(* C6 *)

\* C6: every allocation result returned has unfulfilled_qty >= 0.
C6_UnfulfilledNeverNegative ==
    ReturnedResult => Result.Unfulfilled_Qty >= 0

-----------------------------------------------------------------------------
(* C7 *)

\* C7: every call of allocate_item_lots_fifo on the same request object ends as the
\* first call on it ended: what the first call left in the request (parsed dates,
\* PO keys) changes nothing.
C7_RepeatedCallSameOutcome ==
    \A i \in 1..Len(outcomes) : outcomes[i] = outcomes[1]

\* a second call has returned, on records the first call rewrote
C7_Witness ==
    /\ ReturnedResult
    /\ Len(outcomes) >= 2
    /\ Len(Result.Selected_Lots) >= 2
    /\ \A i \in 1..Len(Records) : HasPO(Records[i]) /\ Records[i].Posting_Date.type = "date"

-----------------------------------------------------------------------------
(* C8 *)

AggDone == agg_pc = "done"
Rows == IF "value" \in DOMAIN ledger THEN ledger.value ELSE <<>>
Aggregated == lot_list[1].Lot_Records

RowIndexesOf(lot_no) == {k \in 1..Len(Rows) : Rows[k].Lot_No = lot_no}

RECURSIVE RemainingOver(_)
RemainingOver(K) ==
    IF K = {} THEN 0
    ELSE LET k == CHOOSE x \in K : TRUE
         IN  Rows[k].Remaining_Quantity + RemainingOver(K \ {k})

\* C8: for a non-empty set of raw ledger rows the output holds exactly one
\* aggregated lot per distinct Lot_No; its Remaining_Quantity is the sum of the
\* remaining quantities of that lot's rows and its Posting_Date is the latest
\* posting date among them.
C8_OneAggregatedLotPerLotNo ==
    (AggDone /\ Rows # <<>>)
        => /\ Len(lot_list) = 1
           /\ \A n \in LotNosOf(Rows) :
                 Cardinality({i \in 1..Len(Aggregated) : Aggregated[i].Lot_No = n}) = 1
           /\ \A i \in 1..Len(Aggregated) :
                 LET K == RowIndexesOf(Aggregated[i].Lot_No)
                 IN  /\ K # {}
                     /\ Aggregated[i].Remaining_Quantity = RemainingOver(K)
                     /\ \E k \in K : Rows[k].Posting_Date = Aggregated[i].Posting_Date
                     /\ \A k \in K : ~DateLess(Aggregated[i].Posting_Date.ymd,
                                               Rows[k].Posting_Date.ymd)

\* two lots, one of them with two rows of which the later-dated comes first
C8_Witness ==
    /\ AggDone
    /\ Rows # <<>>
    /\ Len(Aggregated) = 2
    /\ \E i, j \in 1..Len(Rows) :
          /\ i < j
          /\ Rows[i].Lot_No = Rows[j].Lot_No
          /\ DateLess(Rows[j].Posting_Date.ymd, Rows[i].Posting_Date.ymd)

-----------------------------------------------------------------------------
(* C9 *)

MapEntry(lot_no) ==
    IF lot_no \in DOMAIN requested_qty_map THEN requested_qty_map[lot_no] ELSE 0

EveryLotKept == \A n \in LotNosOf(Rows) : \E i \in 1..Len(Aggregated) : Aggregated[i].Lot_No = n

\* C9 as stated: each aggregated lot's Available_Quantity equals its
\* Remaining_Quantity plus the map entry of its Lot_No (0 when absent), and lots
\* whose Available_Quantity is zero or negative are kept.
C9_AsStated ==
    (AggDone /\ Rows # <<>>)
        => /\ \A i \in 1..Len(Aggregated) :
                 Aggregated[i].Available_Quantity =
                     Aggregated[i].Remaining_Quantity + MapEntry(Aggregated[i].Lot_No)
           /\ EveryLotKept

\* C9 amended: each aggregated lot's Available_Quantity equals its
\* Remaining_Quantity plus the map entry of its Lot_No (0 when absent), rounded to
\* 2 decimals, and lots whose Available_Quantity is zero or negative are kept.
C9_AvailableIsRoundedNet ==
    (AggDone /\ Rows # <<>>)
        => /\ \A i \in 1..Len(Aggregated) :
                 Aggregated[i].Available_Quantity =
                     Round2(Aggregated[i].Remaining_Quantity + MapEntry(Aggregated[i].Lot_No))
           /\ EveryLotKept

\* a lot left without availability by its reservations is in the output, beside a
\* lot whose availability the rounding changed and that is absent from the map
C9_Witness ==
    /\ AggDone
    /\ Rows # <<>>
    /\ \E i, j \in 1..Len(Aggregated) :
          /\ Aggregated[i].Available_Quantity <= 0
          /\ Aggregated[i].Lot_No \in DOMAIN requested_qty_map
          /\ Aggregated[j].Lot_No \notin DOMAIN requested_qty_map
          /\ Aggregated[j].Available_Quantity # Aggregated[j].Remaining_Quantity

-----------------------------------------------------------------------------
(* C10 *)

\* C10 as stated: with an empty lot list and required_quantity > 0 the call returns
\* empty selected_lots and unfulfilled_qty equal to required_quantity.
C10_AsStated ==
    (Done /\ Records = <<>> /\ Required > 0)
        => /\ LastOutcome.kind = "return"
           /\ Result.Selected_Lots = <<>>
           /\ Result.Unfulfilled_Qty = Required

\* C10 amended: with an empty lot list and required_quantity > 0 the call returns
\* (no error) empty selected_lots and unfulfilled_qty equal to required_quantity
\* rounded to 4 decimals.
C10_EmptyLotsAllUnfulfilled ==
    (Done /\ Records = <<>> /\ Required > 0)
        => /\ LastOutcome.kind = "return"
           /\ Result.Selected_Lots = <<>>
           /\ Result.Unfulfilled_Qty = Round4(Required)

C10_Witness ==
    /\ ReturnedResult
    /\ Records = <<>>
    /\ Required > 0
    /\ Result.Unfulfilled_Qty # 0

-----------------------------------------------------------------------------
(* Vocabulary of the order properties *)

OrderDone == so_pc = "done"
OrderReturned == OrderDone /\ so_outcome.kind = "return"

\* a request of this kind was sent for the line and came back without an error
RequestOk(api, line_no) ==
    \E k \in 1..Len(bc_requests) :
        /\ bc_requests[k].api = api
        /\ bc_requests[k].line = line_no
        /\ bc_requests[k].ok

\* what the Aggregator makes of one sales line, given how its two lookups ended
LineLots(line_item) ==
    IF ~RequestOk("locations", line_item.sequence) THEN <<>>
    ELSE group_lot_records(
             IF RequestOk("ItemLedgerEntries", line_item.sequence)
             THEN item_ledger[line_item.lineObjectNumber] ELSE EmptyDict,
             line_item.lineObjectNumber, line_item.sequence, "MAIN",
             line_item.quantity, requested_qty_map)

RECURSIVE RetrievedFrom(_)
RetrievedFrom(lines) ==
    IF lines = <<>> THEN <<>>
    ELSE RetrievedFrom(Front(lines)) \o LineLots(Last(lines))

\* the per-line lot data as the Aggregator produced it, in line order
Retrieved == RetrievedFrom(sales_order_lines_data)

\* the call on this line's lot data, taken on its own, raises
LineRaises(line_lots) == allocate_item_lots_fifo(line_lots).outcome.kind = "raise"

\* the results of the lines whose allocation returns, each line taken on its own
RECURSIVE ResultsOf(_)
ResultsOf(lots) ==
    IF lots = <<>> THEN <<>>
    ELSE IF LineRaises(Last(lots)) THEN ResultsOf(Front(lots))
    ELSE Append(ResultsOf(Front(lots)), allocate_item_lots_fifo(Last(lots)).outcome.value)

-----------------------------------------------------------------------------
(* C11 *)

\* C11: once the company is resolved, allocate_sales_order_lots returns a result
\* whatever the lines do: a line whose allocation raises has no entry in
\* selected_lots, and every other line has the result its own lot data gives,
\* in line order
C11_FailingLineIsLeftOut ==
    (OrderDone /\ RequestOk("companies", 0)) =>
        /\ so_outcome.kind = "return"
        /\ so_outcome.value.status = "success"
        /\ so_outcome.value.selected_lots = ResultsOf(Retrieved)

\* an order is returned in which a line that raises comes before a line that is
\* allocated from its lots
C11_Witness ==
    /\ OrderReturned
    /\ \E i, j \in 1..Len(Retrieved) :
         /\ i < j
         /\ LineRaises(Retrieved[i])
         /\ ~LineRaises(Retrieved[j])
         /\ \E k \in 1..Len(so_outcome.value.selected_lots) :
              /\ so_outcome.value.selected_lots[k].Line_No = Retrieved[j].Line_No
              /\ so_outcome.value.selected_lots[k].Selected_Lots # <<>>

-----------------------------------------------------------------------------
(* C12 *)

\* a request of this kind was sent for the line and failed
RequestFailed(api, line_no) ==
    \E k \in 1..Len(bc_requests) :
        /\ bc_requests[k].api = api
        /\ bc_requests[k].line = line_no
        /\ ~bc_requests[k].ok

\* the line's location did not resolve, or its ledger query failed
LookupFailed(line_item) ==
    \/ RequestFailed("locations", line_item.sequence)
    \/ RequestFailed("ItemLedgerEntries", line_item.sequence)

OfLine(entries, line_item) == SelectSeq(entries, LAMBDA e : e.Line_No = line_item.sequence)

\* the same lot with the same quantities and the same calendar date
SameLot(a, b) ==
    /\ a.Lot_No = b.Lot_No
    /\ a.Remaining_Quantity = b.Remaining_Quantity
    /\ a.Requested_Quantity = b.Requested_Quantity
    /\ a.Available_Quantity = b.Available_Quantity
    /\ a.Posting_Date.ymd = b.Posting_Date.ymd

SameLineLots(a, b) ==
    /\ a.Item_No = b.Item_No
    /\ a.Line_No = b.Line_No
    /\ a.Location_Code = b.Location_Code
    /\ a.Quantity = b.Quantity
    /\ Len(a.Lot_Records) = Len(b.Lot_Records)
    /\ \A k \in 1..Len(a.Lot_Records) : SameLot(a.Lot_Records[k], b.Lot_Records[k])

\* what the Aggregator makes of the line's ledger rows when both lookups succeed
FetchedLots(line_item) ==
    group_lot_records(item_ledger[line_item.lineObjectNumber],
                      line_item.lineObjectNumber, line_item.sequence, "MAIN",
                      line_item.quantity, requested_qty_map)

\* C12: once every line has been processed, a line whose location did not
\* resolve or whose ledger query failed has no entry in lot_list and none in
\* selected_lots, while every other line has the lots aggregated from its
\* ledger rows in lot_list and, when the order returns, the allocation result
\* of those lots in selected_lots
C12_FailedLookupSkipsOnlyItsLine ==
    (so_pc \in {"allocate", "done"} /\ RequestOk("companies", 0)) =>
        \A i \in 1..Len(sales_order_lines_data) :
            LET line_item == sales_order_lines_data[i]
                mine == OfLine(lot_list, line_item)
            IN  IF LookupFailed(line_item)
                THEN /\ mine = <<>>
                     /\ OfLine(so_selected, line_item) = <<>>
                ELSE /\ Len(mine) = Len(FetchedLots(line_item))
                     /\ \A k \in 1..Len(mine) : SameLineLots(mine[k], FetchedLots(line_item)[k])
                     /\ OrderReturned =>
                          OfLine(so_outcome.value.selected_lots, line_item)
                              = ResultsOf(FetchedLots(line_item))

\* an order is returned whose first line lost its ledger query and whose second
\* line is allocated from its lots
C12_Witness ==
    /\ OrderReturned
    /\ Len(sales_order_lines_data) >= 2
    /\ RequestOk("locations", sales_order_lines_data[1].sequence)
    /\ RequestFailed("ItemLedgerEntries", sales_order_lines_data[1].sequence)
    /\ item_ledger[sales_order_lines_data[1].lineObjectNumber].value # <<>>
    /\ \E k \in 1..Len(so_outcome.value.selected_lots) :
         /\ so_outcome.value.selected_lots[k].Line_No = sales_order_lines_data[2].sequence
         /\ so_outcome.value.selected_lots[k].Selected_Lots # <<>>

\* the same with a first line whose location did not resolve
C12_WitnessLocation ==
    /\ OrderReturned
    /\ Len(sales_order_lines_data) >= 2
    /\ RequestFailed("locations", sales_order_lines_data[1].sequence)
    /\ item_ledger[sales_order_lines_data[1].lineObjectNumber].value # <<>>
    /\ \E k \in 1..Len(so_outcome.value.selected_lots) :
         /\ so_outcome.value.selected_lots[k].Line_No = sales_order_lines_data[2].sequence
         /\ so_outcome.value.selected_lots[k].Selected_Lots # <<>>

-----------------------------------------------------------------------------
(* C13 *)

\* C13: the lot_list that allocate_sales_order_lots returns holds, line by line,
\* the lot records exactly as the Aggregator produced them: same fields, same
\* values
C13_LotListAsAggregated ==
    OrderReturned => so_outcome.value.lot_list = Retrieved

-----------------------------------------------------------------------------
(* C14 *)

InsertDone == insert_pc = "done"

\* the reservation writes sent so far, in the order they were sent
Posts == SelectSeq(bc_requests, LAMBDA q : q.api = "POST ReservationEntries")

\* an entry with a lot number and a quantity
Writable(lot_entry) ==
    /\ "Lot_No" \in DOMAIN lot_entry
    /\ lot_entry.Lot_No # None
    /\ "Selected_Qty" \in DOMAIN lot_entry

\* what the claim asks of the writes for one allocation result
WritesOfItem(item_lots, sales_order_no) ==
    LET entries == SelectSeq(item_lots.Selected_Lots, Writable)
    IN  [k \in 1..Len(entries) |->
            [item |-> item_lots.Item_No,
             location |-> item_lots.Location_Code,
             line |-> item_lots.Line_No,
             order |-> sales_order_no,
             lot |-> entries[k].Lot_No,
             quantity |-> 0 - entries[k].Selected_Qty]]

RECURSIVE WritesOf(_, _)
WritesOf(selected, sales_order_no) ==
    IF selected = <<>> THEN <<>>
    ELSE WritesOf(Front(selected), sales_order_no)
             \o WritesOfItem(Last(selected), sales_order_no)

\* the same fields of a write that was sent
Written(post) ==
    [item |-> post.payload.itemNo,
     location |-> post.payload.locationCode,
     line |-> post.payload.sourceRefNo,
     order |-> post.payload.sourceID,
     lot |-> post.payload.lotNo,
     quantity |-> post.payload.Quantity]

RECURSIVE Repeat(_, _)
Repeat(s, n) == IF n = 0 THEN <<>> ELSE Repeat(s, n - 1) \o s

\* C14: when insert_lot_into_sales_order has returned, it has sent, per call,
\* one reservation write for every entry of every Selected_Lots that has a lot
\* number and a quantity, in the order of the results and of their entries,
\* each with the result's item, location and line number, the sales order
\* number, the entry's lot and minus its Selected_Qty in both quantity fields,
\* whether or not Business Central accepted the writes
C14_OneWritePerSelectedLot ==
    InsertDone =>
        /\ [k \in 1..Len(Posts) |-> Written(Posts[k])]
             = Repeat(WritesOf(insert_args.selected_lots, insert_args.sales_order_no),
                      Len(insert_outcomes))
        /\ \A k \in 1..Len(Posts) : Posts[k].payload.quantityBase = Posts[k].payload.Quantity

\* one call has returned that had two results to write, one of them with
\* entries to pass over, and a write that Business Central refused
C14_Witness ==
    /\ InsertDone
    /\ Len(insert_outcomes) = 1
    /\ Len(insert_args.selected_lots) = 2
    /\ \E i \in 1..2 : \E k \in 1..Len(insert_args.selected_lots[i].Selected_Lots) :
         ~Writable(insert_args.selected_lots[i].Selected_Lots[k])
    /\ Len(Posts) >= 3
    /\ \E k \in 1..Len(Posts) : ~Posts[k].ok
    /\ \E k \in 1..Len(Posts) : Posts[k].ok

-----------------------------------------------------------------------------
(* C15 *)

\* every write sent so far was accepted
AllPostsOk == \A k \in 1..Len(Posts) : Posts[k].ok

\* C15: after insert_lot_into_sales_order has been called twice with the same
\* arguments, every write accepted, the ReservationEntries table holds per lot
\* the total it held after the first call
C15_RetryLeavesSameEntries ==
    (InsertDone /\ Len(insert_outcomes) = 2 /\ AllPostsOk) =>
        SumByLot(reservations)
            = SumByLot(SubSeq(reservations, 1,
                  Len(WritesOf(insert_args.selected_lots, insert_args.sales_order_no))))

-----------------------------------------------------------------------------
(* C16 *)

\* a Posting_Date that is neither a date nor a "YYYY-MM-DD" text of a calendar date
Malformed(v) == v.type \notin {"date", "str"} \/ (v.type = "str" /\ ~ValidYMD(v.ymd))

SomeLotMalformed == \E i \in 1..Len(Records) : Malformed(Records[i].Posting_Date)

\* C16: a call of allocate_item_lots_fifo on a request in which some lot has a
\* malformed Posting_Date raises: its step out of the entry ends the call with an
\* exception and no result
C16_MalformedDateRaises ==
    [][ (pc = "call" /\ SomeLotMalformed) =>
            /\ pc' = "done"
            /\ Len(outcomes') = Len(outcomes) + 1
            /\ Last(outcomes').kind = "raise" ]_vars

\* a call has raised on a request whose first lot is well-formed (and has been
\* rewritten) and whose later lot has a malformed date
C16_Witness ==
    /\ Done
    /\ LastOutcome.kind = "raise"
    /\ Len(Records) >= 2
    /\ ~Malformed(Records[1].Posting_Date)
    /\ HasPO(Records[1])
    /\ \E i \in 2..Len(Records) : Malformed(Records[i].Posting_Date)

-----------------------------------------------------------------------------
(* C17 *)

PODone == po_returned # <<>>
Token == po_returned[1]

Positions(s, c) == {i \in 1..Len(s) : s[i] = c}
Least(S) == CHOOSE i \in S : \A o \in S : i <= o

\* s[i] is a '#', s[j] a '-' behind it, and what lies between them is a non-empty
\* run without '-', whitespace, '#' and '/'
CleanRun(s, i, j) ==
    /\ i \in Positions(s, "#")
    /\ j \in Positions(s, "-")
    /\ j > i + 1
    /\ \A k \in (i + 1)..(j - 1) : s[k] \notin {"-", " ", "#", "/"}

RunStarts(s) == {i \in 1..Len(s) : \E j \in 1..Len(s) : CleanRun(s, i, j)}

\* C17 as stated: when lot_no holds a '#' with a '-' somewhere behind it, the
\* token is what lies between the first '#' and the first '-' behind that '#',
\* and otherwise the token is None
C17_AsStated ==
    PODone =>
        LET s == po_lot_no
            pairs == {i \in Positions(s, "#") : \E j \in Positions(s, "-") : j > i}
        IN  IF pairs = {} THEN Token = None
            ELSE LET i == Least(Positions(s, "#"))
                     j == Least({k \in Positions(s, "-") : k > i})
                 IN  Token = SubSeq(s, i + 1, j - 1)

\* C17: the token is the run behind the leftmost '#' that is followed by a
\* non-empty run without '-', whitespace, '#' and '/' which a '-' ends, and
\* None when lot_no has no such run
C17_TokenIsFirstCleanRun ==
    PODone =>
        LET s == po_lot_no
        IN  IF RunStarts(s) = {} THEN Token = None
            ELSE LET i == Least(RunStarts(s))
                     j == CHOOSE k \in 1..Len(s) : CleanRun(s, i, k)
                 IN  Token = SubSeq(s, i + 1, j - 1)

\* a token was found behind a '#' that is not the first '#' of the lot number
C17_Witness ==
    /\ PODone
    /\ Token # None
    /\ RunStarts(po_lot_no) # {}
    /\ Least(RunStarts(po_lot_no)) > Least(Positions(po_lot_no, "#"))

-----------------------------------------------------------------------------
(* C18 *)

\* the lot number yields no PO token
TokenLess(lot_no) == RunStarts(lot_no) = {}

\* positions of the FIFO sequence held by lots without a PO token
TokenLessAt == {i \in 1..Len(ordered_lots) : TokenLess(ordered_lots[i].Lot_No)}

DateAt(i) == ordered_lots[i].Posting_Date.ymd

\* earliest posting date of the lots of the FIFO sequence that share i's PO
GroupEarliestAt(i) ==
    LET ds == {DateAt(k) : k \in {n \in 1..Len(ordered_lots) :
                                     ordered_lots[n].PO = ordered_lots[i].PO}}
    IN  CHOOSE d \in ds : \A e \in ds : ~DateLess(e, d)

\* earliest posting date of the lots without a PO token
TokenLessEarliest ==
    LET ds == {DateAt(k) : k \in TokenLessAt}
    IN  CHOOSE d \in ds : \A e \in ds : ~DateLess(e, d)

EveryDateWellFormed == \A i \in 1..Len(Records) : ~Malformed(Records[i].Posting_Date)

\* C18: the lots whose lot number yields no PO token are one group of the FIFO
\* sequence: none is dropped, they stand next to each other in ascending
\* posting date, groups with an earlier earliest date come before them and
\* groups with a later one behind them; and a request whose dates are all well
\* formed never raises, however many of its lots have no token
C18_TokenLessLotsAreOneGroup ==
    /\ pc = "walk" =>
         /\ \A r \in 1..Len(Records) :
                \E i \in 1..Len(ordered_lots) : ordered_lots[i].Lot_No = Records[r].Lot_No
         /\ \A i, j \in TokenLessAt : \A k \in 1..Len(ordered_lots) :
                (i < k /\ k < j) => k \in TokenLessAt
         /\ \A i, j \in TokenLessAt : i < j => ~DateLess(DateAt(j), DateAt(i))
         /\ \A i \in TokenLessAt : \A k \in 1..Len(ordered_lots) :
                k \notin TokenLessAt =>
                    IF k < i THEN ~DateLess(TokenLessEarliest, GroupEarliestAt(k))
                    ELSE ~DateLess(GroupEarliestAt(k), TokenLessEarliest)
    /\ EveryDateWellFormed => \A k \in 1..Len(outcomes) : outcomes[k].kind = "return"

\* a call has returned for a request with two lots without a token, placed
\* ahead of a lot with a token that is younger than the first and older than
\* the second of them
C18_Witness ==
    /\ ReturnedResult
    /\ Len(ordered_lots) = 3
    /\ TokenLessAt = {1, 2}
    /\ ordered_lots[1].Lot_No # ordered_lots[2].Lot_No
    /\ DateLess(DateAt(1), DateAt(3))
    /\ DateLess(DateAt(3), DateAt(2))
    /\ Len(Result.Selected_Lots) = 3

-----------------------------------------------------------------------------
(* C19 *)

LastSelectorCall == selector_calls[Len(selector_calls)]

\* C19: a call of LotSelector.allocate with required_qty <= 0 raises ValueError
\* and leaves the instance's selected_lots and available_lots as they were
C19_NonPositiveQtyRaisesAndKeepsState ==
    [][ (/\ Len(selector_calls') = Len(selector_calls) + 1
         /\ Last(selector_calls').required_qty <= 0) =>
            /\ Last(selector_calls').outcome = Raise("ValueError")
            /\ selector_selected' = selector_selected
            /\ available_lots' = available_lots ]_vars

\* allocate(0) has raised on an instance that holds lots and the selections of
\* an earlier call
C19_Witness ==
    /\ Len(selector_calls) = 2
    /\ selector_calls[1].outcome.kind = "return"
    /\ LastSelectorCall.required_qty = 0
    /\ LastSelectorCall.outcome = Raise("ValueError")
    /\ selector_selected # <<>>
    /\ selector_selected = selector_calls[1].outcome.value
    /\ Len(available_lots) >= 2

-----------------------------------------------------------------------------
(* C20 *)

\* positions in the request log of the queries for the requested-quantity map
MapFetches == {k \in 1..Len(bc_requests) : bc_requests[k].api = "ReservationEntries"}

\* positions of the queries sent for single lines
LineRequests ==
    {k \in 1..Len(bc_requests) : bc_requests[k].api \in {"locations", "ItemLedgerEntries"}}

\* every lot record of lot_list carries the requested quantity this map gives it
AggregatedWith(map) ==
    \A i \in 1..Len(lot_list) : \A k \in 1..Len(lot_list[i].Lot_Records) :
        LET rec == lot_list[i].Lot_Records[k]
        IN  /\ rec.Requested_Quantity = (IF rec.Lot_No \in DOMAIN map THEN map[rec.Lot_No] ELSE 0)
            /\ rec.Available_Quantity = Round2(rec.Remaining_Quantity + rec.Requested_Quantity)

\* C20: in one allocate_sales_order_lots call the requested-quantity map is
\* queried exactly once, before any query for a single line; the map is what
\* that query gave (the sums over the reservation table as it stood then, or
\* nothing when the query failed), and every lot record of every line is
\* aggregated with that one map, whatever is written to the table meanwhile
C20_MapFetchedOnceBeforeLines ==
    IF so_pc \in {"lines", "allocate"} \/ OrderReturned
    THEN /\ Cardinality(MapFetches) = 1
         /\ \A f \in MapFetches :
              /\ \A k \in LineRequests : f < k
              /\ IF bc_requests[f].ok
                 THEN \E n \in 0..Len(reservations) :
                          requested_qty_map = SumByLot(SubSeq(reservations, 1, n))
                 ELSE requested_qty_map = EmptyDict
         /\ AggregatedWith(requested_qty_map)
    ELSE MapFetches = {} /\ LineRequests = {}

\* an order of two lines with lots is returned; a reservation of lot A#P1-1 was
\* accepted after the map was fetched and before the ledger of the second line
\* was queried, and both lines are aggregated without it
C20_Witness ==
    /\ OrderReturned
    /\ Len(lot_list) = 2
    /\ LotA1 \notin DOMAIN requested_qty_map
    /\ LotX9 \in DOMAIN requested_qty_map
    /\ \E f \in MapFetches : \E w, k \in 1..Len(bc_requests) :
         /\ f < w /\ w < k
         /\ bc_requests[w].api = "POST ReservationEntries"
         /\ bc_requests[w].ok
         /\ bc_requests[w].payload.lotNo = LotA1
         /\ bc_requests[k].api = "ItemLedgerEntries"
         /\ bc_requests[k].line = lot_list[2].Line_No

-----------------------------------------------------------------------------
(* C21 *)

\* the lot numbers of a result's selections
SelectedNos(r) == {r.Selected_Lots[j].Lot_No : j \in 1..Len(r.Selected_Lots)}

\* every selection but the last takes its lot whole, and no lot with something
\* available that stands in the FIFO sequence before a selected lot is left out
GreedyPrefix(r) ==
    /\ \A j \in 1..(Len(r.Selected_Lots) - 1) :
          r.Selected_Lots[j].Selected_Qty
              = RecordOf(r.Selected_Lots[j].Lot_No).Available_Quantity
    /\ \A i, k \in 1..Len(ordered_lots) :
          (/\ i < k
           /\ ordered_lots[k].Lot_No \in SelectedNos(r)
           /\ ordered_lots[i].Available_Quantity > 0)
              => ordered_lots[i].Lot_No \in SelectedNos(r)

\* C21: the walk goes on to the next lot only while remaining_need > 0, so it
\* stops at the first point where remaining_need <= 0; and in every result each
\* selected lot other than the last has Selected_Qty equal to its
\* Available_Quantity, and no lot with Available_Quantity > 0 that precedes a
\* selected lot in the FIFO sequence is missing from Selected_Lots.
C21_GreedyPrefix ==
    [][ /\ (pc = "walk" /\ idx' = idx + 1) => remaining_need > 0
        /\ (pc = "walk" /\ pc' = "done") =>
              /\ LastOutcome'.kind = "return"
              /\ GreedyPrefix(LastOutcome'.value)
              /\ (idx <= Len(ordered_lots) => remaining_need <= 0)
      ]_vars

\* a result with two selections, the first a whole lot and the last a part of
\* its lot, returned by a walk that stopped with a lot still ahead
C21_Witness ==
    /\ ReturnedResult
    /\ Len(Result.Selected_Lots) = 2
    /\ Result.Selected_Lots[2].Selected_Qty
          < RecordOf(Result.Selected_Lots[2].Lot_No).Available_Quantity
    /\ idx <= Len(ordered_lots)
    /\ ordered_lots[idx].Available_Quantity > 0

-----------------------------------------------------------------------------
(* C22 *)

\* no lot number is selected twice
SelectedOnce(r) ==
    \A i, j \in 1..Len(r.Selected_Lots) :
        r.Selected_Lots[i].Lot_No = r.Selected_Lots[j].Lot_No => i = j

\* C22 as stated: for every request with required_quantity > 0 (lot numbers are
\* distinct), the result satisfies sum(selected_qty) + unfulfilled_qty =
\* requested_qty, each lot number appears at most once in selected_lots, and each
\* selected_qty satisfies 0 < selected_qty <= that lot's available_quantity.
C22_AsStated ==
    (Done /\ Required > 0)
        => /\ LastOutcome.kind = "return"
           /\ SelectedTotal(Result) + Result.Unfulfilled_Qty = Result.Requested_Qty
           /\ SelectedOnce(Result)
           /\ \A j \in 1..Len(Result.Selected_Lots) :
                 /\ 0 < Result.Selected_Lots[j].Selected_Qty
                 /\ Result.Selected_Lots[j].Selected_Qty
                       <= RecordOf(Result.Selected_Lots[j].Lot_No).Available_Quantity

\* C22 amended: for every request with required_quantity > 0 (lot numbers are
\* distinct), sum(selected_qty) + unfulfilled_qty is within 0.0001 of
\* requested_qty, each lot number appears at most once in selected_lots, and each
\* selected_qty satisfies 0 <= selected_qty <= that lot's available_quantity
\* (selected_qty and unfulfilled_qty are rounded to 4 decimals, and a selection
\* of less than 0.00005 is recorded as 0.0).
C22_ConservationWithinRounding ==
    (Done /\ Required > 0)
        => /\ LastOutcome.kind = "return"
           /\ Result.Requested_Qty = Required
           /\ Abs(SelectedTotal(Result) + Result.Unfulfilled_Qty - Required) < Grain4
           /\ SelectedOnce(Result)
           /\ \A j \in 1..Len(Result.Selected_Lots) :
                 /\ 0 <= Result.Selected_Lots[j].Selected_Qty
                 /\ Result.Selected_Lots[j].Selected_Qty
                       <= RecordOf(Result.Selected_Lots[j].Lot_No).Available_Quantity

\* a result whose two selections and unfulfilled quantity do not add up to the
\* quantity asked for, by less than 0.0001
C22_Witness ==
    /\ ReturnedResult
    /\ Required > 0
    /\ Len(Result.Selected_Lots) = 2
    /\ SelectedTotal(Result) + Result.Unfulfilled_Qty # Required

\* a selection recorded with Selected_Qty 0.0
C22_WitnessZero ==
    /\ ReturnedResult
    /\ Required > 0
    /\ \E j \in 1..Len(Result.Selected_Lots) : Result.Selected_Lots[j].Selected_Qty = 0

-----------------------------------------------------------------------------
(* C23 *)

\* the entries of Selected_Lots of all per-line results, in order
RECURSIVE AllSelections(_)
AllSelections(results) ==
    IF results = <<>> THEN <<>>
    ELSE AllSelections(Front(results)) \o Last(results).Selected_Lots

\* total Selected_Qty the results assign to one lot
SelectedOfLot(results, lot_no) ==
    LET mine == SelectSeq(AllSelections(results), LAMBDA e : e.Lot_No = lot_no)
    IN  SumSeq([k \in 1..Len(mine) |-> mine[k].Selected_Qty])

\* the lot records of all lines of a lot_list
RECURSIVE AllRecords(_)
AllRecords(lots) ==
    IF lots = <<>> THEN <<>>
    ELSE AllRecords(Front(lots)) \o Last(lots).Lot_Records

\* Available_Quantity of a lot as lot_list gives it
AvailableOfLot(lots, lot_no) ==
    LET recs == AllRecords(lots)
    IN  recs[CHOOSE k \in 1..Len(recs) : recs[k].Lot_No = lot_no].Available_Quantity

\* C23: in the outcome of one order, for every lot, the Selected_Qty assigned to
\* the lot over all per-line results sums to no more than the lot's
\* Available_Quantity, also when two lines have the same item and location
C23_LotNotOverAllocated ==
    OrderReturned =>
        \A k \in 1..Len(AllSelections(so_outcome.value.selected_lots)) :
            LET lot_no == AllSelections(so_outcome.value.selected_lots)[k].Lot_No
            IN  SelectedOfLot(so_outcome.value.selected_lots, lot_no)
                    <= AvailableOfLot(so_outcome.value.lot_list, lot_no)

-----------------------------------------------------------------------------
(* Two orders that need the same item at the same location *)

\* quantity the other order's line asks of ITEM1
OtherQuantityValues == { Grain2 + 6, 5 * Grain2 }

\* what allocate_sales_order_lots returned to the other order, SO2, which was
\* allocated first: one line of ITEM1, allocated against the reservations of
\* that moment
OtherOrderAllocation(q) ==
    ResultsOf(group_lot_records(ItemLedgerEntries["ITEM1"], "ITEM1", 10000, "MAIN", q,
                                get_lot_requested_qty(ReservationTable, TRUE)))

\* POST /api/insert_lots_into_sales_order for this order: the client sends the
\* selected_lots that its allocation returned (the server is free again once
\* the other order's insert has returned)
SubmitSelected ==
    /\ so_pc = "done"
    /\ so_outcome.kind = "return"
    /\ insert_pc = "done"
    /\ Len(insert_outcomes) = 1
    /\ insert_args' = [selected_lots |-> so_outcome.value.selected_lots,
                       sales_order_no |-> "SO1"]
    /\ insert_pc' = "call"
    /\ insert_pos' = <<1, 1>>
    /\ UNCHANGED insert_outcomes
    /\ UNCHANGED <<allocVars, aggVars, bcVars, orchVars, selectorVars, poVars, serviceVars>>

InitFlows ==
    /\ \E line \in {v \in LineValues : v[1] = "ITEM1"} :
         sales_order_lines = << SalesLine(1, line[1], line[2]) >>
    /\ item_ledger = ItemLedgerEntries
    /\ reservations = ReservationTable
    /\ bc_requests = <<>>
    /\ OrchStart
    /\ \E q \in OtherQuantityValues :
         insert_args = [selected_lots |-> OtherOrderAllocation(q), sales_order_no |-> "SO2"]
    /\ InsertStart
    /\ AllocIdle
    /\ AggIdle
    /\ SelectorIdle
    /\ PoIdle
    /\ ServiceIdle

NextFlows ==
    \/ StartOrder \/ ProcessLine \/ LinesDone \/ AllocateLine \/ ReturnOrder
    \/ InsertLot \/ InsertNextItem \/ InsertReturn
    \/ SubmitSelected

\* order SO2 has been allocated and is being written while order SO1, one line
\* of the same item, is allocated; SO1 is written after that
SpecFlows == InitFlows /\ [][NextFlows]_vars

-----------------------------------------------------------------------------
(* C24 *)

\* the ledger rows of all items
RECURSIVE LedgerRowsOf(_)
LedgerRowsOf(items) ==
    IF items = {} THEN <<>>
    ELSE LET i == CHOOSE x \in items : TRUE
         IN  item_ledger[i].value \o LedgerRowsOf(items \ {i})

\* what is left of a lot in the item ledger
RemainingOfLot(lot_no) == RemainingSum(RowsOfLot(LedgerRowsOf(DOMAIN item_ledger), lot_no))

\* what the ReservationEntries table reserves of a lot (entries are negative)
ReservedOfLot(lot_no) == 0 - SumByLot(reservations)[lot_no]

\* C24: however the allocations and the writes of two orders that need the same
\* item at the same location interleave, the quantity reserved from a lot never
\* exceeds what is left of the lot
C24_LotNotOverReserved ==
    \A lot_no \in DOMAIN SumByLot(reservations) :
        ReservedOfLot(lot_no) <= RemainingOfLot(lot_no)

-----------------------------------------------------------------------------
(* C25 *)

\* C25: allocate_sales_order_lots returns allocations with status "success" only
\* when the ReservationEntries query that builds the requested-quantity map
\* succeeded; when that query failed, the outcome is an error
C25_SuccessNeedsReservationMap ==
    OrderDone =>
        /\ (so_outcome.kind = "return" /\ so_outcome.value.status = "success")
              => RequestOk("ReservationEntries", 0)
        /\ RequestFailed("ReservationEntries", 0)
              => (so_outcome.kind = "raise" \/ so_outcome.value.status = "error")

-----------------------------------------------------------------------------
(* C26 *)

\* the writes the call that has just returned attempted
PostsOfLastCall ==
    LET n == Len(WritesOf(insert_args.selected_lots, insert_args.sales_order_no))
    IN  SubSeq(Posts, Len(Posts) - n + 1, Len(Posts))

\* C26: when insert_lot_into_sales_order has returned, it has attempted the
\* write of every lot, whether or not an earlier write failed, and it reports
\* status "success" only if every write it attempted was accepted; with a failed
\* write the reported status is "error"
C26_SuccessNeedsEveryWrite ==
    InsertDone =>
        /\ Len(Posts) = Len(insert_outcomes)
                          * Len(WritesOf(insert_args.selected_lots, insert_args.sales_order_no))
        /\ Last(insert_outcomes).value.status = "success"
              => \A k \in 1..Len(PostsOfLastCall) : PostsOfLastCall[k].ok
        /\ (\E k \in 1..Len(PostsOfLastCall) : ~PostsOfLastCall[k].ok)
              => Last(insert_outcomes).value.status = "error"

-----------------------------------------------------------------------------
(* C27 *)

\* position of the last set_bc_env request served before request k (0: none)
LastSetBefore(k) ==
    LET sets == {j \in 1..(k - 1) : env_served[j].kind = "set_bc_env"}
    IN  IF sets = {} THEN 0 ELSE CHOOSE j \in sets : \A o \in sets : o <= j

\* C27: every Business Central client used to serve a request after an
\* environment has been set targets the environment of the latest set: the
\* clients that get_bc_auth() builds per request and the client of the search
\* tools alike
C27_ClientsTargetCurrentEnv ==
    \A k \in 1..Len(env_served) :
        (env_served[k].kind \in {"endpoint", "tool"} /\ LastSetBefore(k) # 0)
            => env_served[k].azure_bc_env_name
                   = EnvValue(env_served[LastSetBefore(k)].env_name)

-----------------------------------------------------------------------------
(* C28 *)

\* C28: whatever set_bc_env requests came before, the set_bc_env endpoint called
\* with environment e answers with bc_env_name = e, the environment that
\* get_bc_auth() uses from then on
C28_ResponseNamesNewEnv ==
    \A k \in 1..Len(env_served) :
        env_served[k].kind = "set_bc_env"
            => /\ env_served[k].response.bc_env_name = EnvValue(env_served[k].env_name)
               /\ k = Len(env_served)
                     => env_served[k].response.bc_env_name = get_bc_auth.azure_bc_env_name

-----------------------------------------------------------------------------
(* C29 *)

\* total Remaining_Quantity of the lots the selector was built with
SelectorTotalRemaining ==
    SumSeq([i \in 1..Len(available_lots) |-> available_lots[i].Remaining_Quantity])

\* C29: the list each allocate call on a LotSelector returns describes that
\* call's allocation only: no lot appears in it twice and its Allocated_Qty
\* values sum to min(required_qty of the call, total Remaining_Quantity of the
\* available lots)
C29_EachCallReturnsOwnAllocation ==
    \A k \in 1..Len(selector_calls) :
        selector_calls[k].outcome.kind = "return" =>
            LET returned == selector_calls[k].outcome.value
            IN  /\ \A i, j \in 1..Len(returned) :
                      returned[i].Lot_No = returned[j].Lot_No => i = j
                /\ SumSeq([i \in 1..Len(returned) |-> returned[i].Allocated_Qty])
                      = Min(selector_calls[k].required_qty, SelectorTotalRemaining)

-----------------------------------------------------------------------------
(* C30 *)

\* position of the last call before call k that requested a token (0: none)
LastRequestBefore(k) ==
    LET reqs == {j \in 1..(k - 1) : token_calls[j].requested}
    IN  IF reqs = {} THEN 0 ELSE CHOOSE j \in reqs : \A o \in reqs : o <= j

\* a token is cached when call k is made: the latest request before it succeeded
CachedBefore(k) == LastRequestBefore(k) # 0 /\ token_calls[LastRequestBefore(k)].ok

\* acquisition time + expires_in - 60 of the token call j acquired
DeadlineOf(j) == token_calls[j].acquired_at + token_calls[j].expires_in - 60

\* C30: a call of get_access_token returns the cached token without a new
\* request exactly when a token is cached and the time of the call is before
\* the token's deadline (acquisition time + expires_in - 60); otherwise, at or
\* after the deadline included, a new token is requested; a request that fails
\* returns None and leaves no token cached, a request that succeeds returns the
\* new token
C30_TokenCache ==
    /\ \A k \in 1..Len(token_calls) :
          LET call == token_calls[k]
              j == LastRequestBefore(k)
          IN  /\ ~call.requested <=> (CachedBefore(k) /\ call.at < DeadlineOf(j))
              /\ ~call.requested => call.returned = token_calls[j].returned
              /\ (call.requested /\ ~call.ok) => call.returned = None
              /\ (call.requested /\ call.ok) => call.returned # None
    /\ (token_calls # <<>> /\ Last(token_calls).requested /\ ~Last(token_calls).ok)
          => access_token = None
    /\ (token_calls # <<>> /\ Last(token_calls).requested /\ Last(token_calls).ok)
          => access_token = Last(token_calls).returned

\* a token was requested and cached, returned again from the cache before its
\* deadline, and at the deadline a new request was made, which failed
C30_Witness ==
    /\ Len(token_calls) = 3
    /\ token_calls[1].requested /\ token_calls[1].ok
    /\ ~token_calls[2].requested
    /\ token_calls[2].returned = token_calls[1].returned
    /\ token_calls[3].requested /\ ~token_calls[3].ok
    /\ token_calls[3].at = DeadlineOf(1)
    /\ access_token = None

====
